---- MODULE Spec2Model ----
(***************************************************************************)
(* Model of the ux task runner: cmd/ux main (filter of the packages that   *)
(* define the task, validation of trailing arguments, exit status),        *)
(* RunTask (parallel workers with a WaitGroup, or the serial loop), the    *)
(* per-package execution (executeBuffered, executeStreaming) and the       *)
(* progress state guarded by the output mutex.                             *)
(*                                                                         *)
(* Two versions of RunTask live in the source tree and both are modelled,  *)
(* selected by the variable `variant`:                                     *)
(*   "progress"  : internal/ux/output.go:331-404, both policies run        *)
(*                 executeBuffered, with markStarted / markCompleted;      *)
(*   "streaming" : internal/ux/runner.go:23-134, the parallel policy runs  *)
(*                 executeBuffered and the serial policy executeStreaming. *)
(*                                                                         *)
(* Further parts, each with its own variables and next-state relation:     *)
(* package discovery and the label filter, change detection (gitDiffFiles, *)
(* filterAffected), the summary with its failure logs, ux migrate, and the *)
(* line-prefixing writer of executeStreaming.                              *)
(***************************************************************************)
EXTENDS Integers, Sequences, FiniteSets, TLC

VARIABLES
    variant,      \* which RunTask of the source tree runs
    parallel,     \* cfg.Parallel of the task
    extraArgs,    \* trailing arguments after "--"
    packages,     \* the filtered package list main holds before `relevant`
    mainpc,       \* position of main
    relevant,     \* packages that define the task
    exitStatus,   \* status passed to os.Exit, -1 while running
    results,      \* RunTask's result slice
    next,         \* loop index of RunTask's for loop
    wg,           \* sync.WaitGroup counter
    mu,           \* holders of output.mu: 0 is the loop of RunTask, i the code of package i
    pc,           \* per package: position of the code that runs it
    ran,          \* per package: command lines handed to sh -c so far
    allOutput,    \* per package: the strings.Builder of its execution
    completed,    \* output.completed
    failed,       \* output.failed
    running,      \* output.running
    finished,     \* labels in the order markCompleted / printResult ran
    runs,         \* number of RunTask calls made so far
    firstResults, \* the results of the first RunTask call, kept by a caller
                  \* that runs the task under both policies
    isTTY,        \* output.isTTY: standard output is a terminal
    status,       \* what updateProgress and clearProgress have printed
    fs,           \* the directories below the workspace root and their files
    defaults,     \* [defaults.<type>.tasks] of the root ux.toml, as decoded
    members,      \* workspace.members of the root ux.toml
    filter,       \* the label filter of the command line, "" when absent
    dpc,          \* position of discoverPackages and of main after it
    mi,           \* index of the member pattern being resolved
    walk,         \* directories filepath.Walk has still to visit, in order
    seen,         \* discoverPackages' seen map
    found,        \* discoverPackages' packages slice
    producedBy,   \* per element of found: the index of the member that added it
    discovered,   \* the packages discoverPackages returned
    derr,         \* the error discoverPackages returned, if any
    filtered,     \* main's packages after the label filter
    resolved,     \* the directories handed to resolvePackage, in order
    dround,       \* which discovery of the same tree this is: 1 or 2
    firstDiscovered, \* what the first discovery returned, kept by a caller
                  \* that discovers the same tree again
    firstErr,     \* whether the first discovery returned an error
    diff,         \* what the two git comparisons do: success and standard output
    gpc,          \* position of FilterAffected and gitDiffFiles
    gitOut,       \* gitDiffFiles' buffer `out`
    gitErr,       \* gitDiffFiles' err
    gitRuns,      \* the comparison commands run so far
    kept,         \* the packages FilterAffected returned
    affErr,       \* whether FilterAffected returned an error
    summarized,   \* the results handed to PrintSummary
    spc,          \* position of PrintSummary
    failures,     \* PrintSummary's failures slice
    fi,           \* index of the failure whose log is written next
    logFiles,     \* per failure: the path writeFailureLog returned
    tmp,          \* the files below os.TempDir()/ux: path to content
    mfs,          \* the turborepo: per directory its package.json and ux.toml
    patterns,     \* workspaces of the root package.json
    readonly,     \* directories in which os.WriteFile fails
    mpc,          \* position of RunMigrate
    allPkgs,      \* RunMigrate's allPkgs: the member directories collected
    mk,           \* index of the member whose ux.toml is written next
    reports,      \* the lines RunMigrate printed per ux.toml
    migrated,     \* RunMigrate's migrated counter
    merr,         \* whether RunMigrate returned an error
    written,      \* the byte slices handed to prefixWriter.Write so far
    atStart,      \* prefixWriter.atStart
    downstream,   \* the bytes prefixWriter has written to its writer
    returned      \* per Write call: the n it returned

runner == <<variant, parallel, extraArgs, packages, mainpc, relevant,
            exitStatus, results, next, wg, mu, pc, ran, allOutput, completed,
            failed, running, finished, runs, firstResults, isTTY, status>>

\* What a caller keeps between two discoveries of the same tree.
again == <<dround, firstDiscovered, firstErr>>

discovery == <<fs, defaults, members, filter, dpc, mi, walk, seen, found,
               producedBy, discovered, derr, filtered,
               resolved, again>>

change == <<diff, gpc, gitOut, gitErr, gitRuns, kept, affErr>>

summary == <<summarized, spc, failures, fi, logFiles, tmp>>

migration == <<mfs, patterns, readonly, mpc, allPkgs, mk, reports, migrated,
               merr>>

writer == <<written, atStart, downstream, returned>>

\* What lies outside the task run and outside discovery.
others == <<change, summary, migration, writer>>

\* What lies outside each of these.
outsideChange == <<runner, discovery, summary, migration, writer>>
outsideSummary == <<runner, discovery, change, migration, writer>>
outsideMigration == <<runner, discovery, change, summary, writer>>
outsideWriter == <<runner, discovery, change, summary, migration>>

vars == <<runner, discovery, others>>

inputs == <<variant, parallel, extraArgs, packages, isTTY>>

\* The discovery side while a specification is about a task run only.
DiscoveryOff ==
    /\ fs = <<>>
    /\ defaults = <<>>
    /\ members = <<>>
    /\ filter = <<>>
    /\ dpc = "off"
    /\ mi = 0
    /\ walk = <<>>
    /\ seen = {}
    /\ found = <<>>
    /\ producedBy = <<>>
    /\ discovered = <<>>
    /\ derr = <<>>
    /\ filtered = <<>>
    /\ resolved = <<>>
    /\ dround = 0
    /\ firstDiscovered = <<>>
    /\ firstErr = FALSE

\* Change detection while a specification does not use --affected.
ChangeOff ==
    /\ diff = <<>>
    /\ gpc = "off"
    /\ gitOut = <<>>
    /\ gitErr = FALSE
    /\ gitRuns = <<>>
    /\ kept = <<>>
    /\ affErr = FALSE

\* The summary while a specification does not reach PrintSummary.
SummaryOff ==
    /\ summarized = <<>>
    /\ spc = "off"
    /\ failures = <<>>
    /\ fi = 0
    /\ logFiles = <<>>
    /\ tmp = <<>>

\* Migration while a specification is not about ux migrate.
MigrationOff ==
    /\ mfs = <<>>
    /\ patterns = <<>>
    /\ readonly = {}
    /\ mpc = "off"
    /\ allPkgs = <<>>
    /\ mk = 0
    /\ reports = <<>>
    /\ migrated = 0
    /\ merr = FALSE

\* The prefix writer while a specification does not stream output: as
\* executeStreaming constructs it.
WriterOff ==
    /\ written = <<>>
    /\ atStart = TRUE
    /\ downstream = <<>>
    /\ returned = <<>>

\* Everything outside the task run and discovery is off, but for one area.
OffBut(area) ==
    /\ area # "change" => ChangeOff
    /\ area # "summary" => SummaryOff
    /\ area # "migration" => MigrationOff
    /\ area # "writer" => WriterOff

OthersOff == OffBut("none")

----------------------------------------------------------------------------
(* Bounds of the model. *)

MaxPkgs == 2
MaxSteps == 2
LiveMaxPkgs == 2
LiveMaxSteps == 1
StepMaxCmds == 3

----------------------------------------------------------------------------
(* Shell commands.  A command line is the string handed to `sh -c`; its     *)
(* behaviour is its exit status and the bytes it writes, each tagged with   *)
(* the stream it is written to, in the order written.                      *)

task == "test"

Commands == {"ok", "bad"}
StepCommands == {"", "ok", "bad"}
LiveCommands == {"ok", "hang"}

ExtraArgsChoices == {<<>>, <<"-x">>}
ManyArgsChoices == {<<>>, <<"-x">>, <<"-x", "-y">>}

W(s, b) == [stream |-> s, byte |-> b]

\* sh -c <line>: the bytes written, in order.
Writes(line) ==
    CASE line \in {"ok", "ok -x", "ok -x -y"} -> <<W("err", "w"), W("out", "o")>>
      [] line \in {"bad", "bad -x"} -> <<W("out", "x"), W("err", "y"), W("out", "z")>>
      [] line = " -x"               -> <<W("err", "n")>>
      [] OTHER                      -> <<>>

\* sh -c <line>: the exit status.
ExitCode(line) ==
    CASE line \in {"bad", "bad -x"} -> 1
      [] line = " -x"               -> 127
      [] OTHER                      -> 0

\* A command that never terminates blocks cmd.Run() forever.
Terminates(line) == line \notin {"hang", "hang -x"}

RECURSIVE Join(_)
\* strings.Join(args, " ")
Join(args) ==
    IF Len(args) = 0 THEN ""
    ELSE IF Len(args) = 1 THEN args[1]
    ELSE args[1] \o " " \o Join(Tail(args))

\* extra := ""; if len(extraArgs) > 0 { extra = " " + strings.Join(extraArgs, " ") }
Extra(args) == IF Len(args) > 0 THEN " " \o Join(args) ELSE ""

\* exec.Command("sh", "-c", cmdStr+extra)
CmdLine(cmdStr, args) == cmdStr \o Extra(args)

Bytes(ws) == [k \in 1..Len(ws) |-> ws[k].byte]
OnStream(ws, s) == SelectSeq(ws, LAMBDA w : w.stream = s)

\* executeBuffered: cmd.Stdout = &stdout, cmd.Stderr = &stderr, then
\* allOutput.WriteString(stdout.String()); allOutput.WriteString(stderr.String())
BufferedCapture(ws) == Bytes(OnStream(ws, "out")) \o Bytes(OnStream(ws, "err"))

\* executeStreaming: cmd.Stdout = tee, cmd.Stderr = tee (one writer for both)
StreamingCapture(ws) == Bytes(ws)

\* Faulty variant of cfgParallel: the worker branch is taken whatever the
\* configuration says.
cfgParallelAlways == TRUE

\* if cfg.Parallel { ... go func ... wg.Wait() } else { ... }
cfgParallel == parallel

\* The serial branch of the streaming version calls executeStreaming; every
\* other branch calls executeBuffered.
Streams == variant = "streaming" /\ ~cfgParallel

Capture(ws) == IF Streams THEN StreamingCapture(ws) ELSE BufferedCapture(ws)

----------------------------------------------------------------------------
(* Data. *)

ZeroPackage == [Label |-> "", Tasks |-> <<>>]
ZeroResult == [Package |-> ZeroPackage, Success |-> FALSE, FailedStep |-> "",
               Output |-> <<>>]

LabelOf(k) == "//p" \o ToString(k)

CmdLists(cmdset, maxs) == UNION {[1..k -> cmdset] : k \in 0..maxs}

\* pkg.Tasks: the task is absent, or maps to a command list (possibly empty).
TaskTables(cmdset, maxs) ==
    {<<>>} \cup {(task :> l) : l \in CmdLists(cmdset, maxs)}

PackageLists(cmdset, maxp, maxs) ==
    UNION {{[k \in 1..n |-> [Label |-> LabelOf(k), Tasks |-> f[k]]] :
                f \in [1..n -> TaskTables(cmdset, maxs)]} : n \in 0..maxp}

N == Len(relevant)
Cmds(i) == relevant[i].Tasks[task]

----------------------------------------------------------------------------
(* Initial states. *)

InitRun(variants, cmdset, maxp, maxs, extras, ttys) ==
    /\ variant \in variants
    /\ isTTY \in ttys
    /\ status = <<>>
    /\ parallel \in BOOLEAN
    /\ extraArgs \in (IF variant = "progress" THEN extras ELSE {<<>>})
    /\ packages \in PackageLists(cmdset, maxp, maxs)
    /\ mainpc = "filter"
    /\ relevant = <<>>
    /\ exitStatus = -1
    /\ results = <<>>
    /\ next = 1
    /\ wg = 0
    /\ mu = {}
    /\ pc = <<>>
    /\ ran = <<>>
    /\ allOutput = <<>>
    /\ completed = 0
    /\ failed = 0
    /\ running = <<>>
    /\ finished = <<>>
    /\ runs = 0
    /\ firstResults = <<>>
    /\ DiscoveryOff
    /\ OthersOff

\* Standard output is not a terminal.
InitWith(variants, cmdset, maxp, maxs, extras) ==
    InitRun(variants, cmdset, maxp, maxs, extras, {FALSE})

Init == InitWith({"progress", "streaming"}, Commands, MaxPkgs, MaxSteps,
                 ExtraArgsChoices)

----------------------------------------------------------------------------
(* main: the packages that define the task, the trailing-argument check,   *)
(* and the call of RunTask.                                                *)

DefinesTask(pkg) == task \in DOMAIN pkg.Tasks

\* Faulty variant of MultiStep: only the first relevant package is looked at.
MultiStepFirstOnly(pkgs) == Len(pkgs[1].Tasks[task]) > 1

\* if cmds := pkg.Tasks[task]; len(cmds) > 1 { ... os.Exit(1) }
MultiStep(pkgs) == \E k \in 1..Len(pkgs) : Len(pkgs[k].Tasks[task]) > 1

\* results := make([]Result, len(packages)); out := newOutput(...)
EnterRunTask(pkgs) ==
    /\ relevant' = pkgs
    /\ results' = [k \in 1..Len(pkgs) |-> ZeroResult]
    /\ pc' = [k \in 1..Len(pkgs) |-> "idle"]
    /\ ran' = [k \in 1..Len(pkgs) |-> <<>>]
    /\ allOutput' = [k \in 1..Len(pkgs) |-> <<>>]
    /\ next' = 1
    /\ wg' = 0
    /\ mu' = {}
    /\ completed' = 0
    /\ failed' = 0
    /\ running' = <<>>
    /\ finished' = <<>>
    /\ status' = <<>>
    /\ runs' = runs + 1
    /\ mainpc' = "run"

MainPrepare ==
    /\ mainpc = "filter"
    /\ LET rel == SelectSeq(packages, DefinesTask) IN
       IF Len(rel) = 0 THEN
            /\ mainpc' = "exited"
            /\ exitStatus' = 0
            /\ UNCHANGED <<relevant, results, next, wg, mu, pc, ran, allOutput,
                           completed, failed, running, finished, status,
                           runs>>
       ELSE IF Len(extraArgs) > 0 /\ MultiStep(rel) THEN
            /\ mainpc' = "exited"
            /\ exitStatus' = 1
            /\ relevant' = rel
            /\ UNCHANGED <<results, next, wg, mu, pc, ran, allOutput,
                           completed, failed, running, finished, status,
                           runs>>
       ELSE /\ EnterRunTask(rel)
            /\ UNCHANGED exitStatus
    /\ UNCHANGED <<others, discovery, inputs, firstResults>>

----------------------------------------------------------------------------
(* RunTask: starting a package.                                            *)

\* Faulty variant of LoopAdvance: the loop is left once a package has failed.
LoopAdvanceBreakOnFailure(i) ==
    IF i \in DOMAIN results /\ pc[i] = "marking" /\ ~results[i].Success
    THEN Len(relevant) + 1 ELSE i + 1

\* for i, pkg := range packages: the index after i
LoopAdvance(i) == i + 1

\* Faulty variant of ResultSlot: every worker writes the slot of the loop
\* variable it shares with the launching loop.
ResultSlotShared(i) == IF next <= Len(relevant) THEN next ELSE Len(relevant)

\* results[i] = ... with i passed to the closure: the slot of package i.
ResultSlot(i) == i

\* Faulty variant of Unlocked: o.mu.Lock() never waits.
UnlockedAlways == TRUE

\* o.mu.Lock() returns once no one holds the mutex.
Unlocked == mu = {}

\* Faulty variant of FinalOnly: the status line is printed on every update.
FinalOnlyAlways(c, t) == TRUE

\* if o.completed > 0 && o.completed == o.total
FinalOnly(c, t) == c > 0 /\ c = t

\* updateProgress, called with mu held: what it prints is appended to st.
\* Without a terminal that is the final status line, once; on a terminal the
\* line is redrawn each time, with the first in-flight label and the number
\* of the others.
updateProgress(st, c, f, r) ==
    IF ~isTTY
    THEN IF FinalOnly(c, Len(relevant))
         THEN Append(st, [kind |-> "line", completed |-> c,
                          total |-> Len(relevant), passed |-> c - f,
                          failed |-> f])
         ELSE st
    ELSE Append(st, [kind |-> "redraw", completed |-> c,
                     total |-> Len(relevant), passed |-> c - f, failed |-> f,
                     first |-> IF Len(r) > 0 THEN r[1] ELSE "",
                     more |-> IF Len(r) > 1 THEN Len(r) - 1 ELSE 0])

\* clearProgress: if o.isTTY { fmt.Printf("\r%s", clearLine) }
clearProgress(st) == IF isTTY THEN Append(st, [kind |-> "clear"]) ELSE st

\* Faulty variant of WaitDone: RunTask does not wait for its workers.
WaitDoneNoWait == TRUE

\* wg.Wait() returns when the counter is zero.
WaitDone == wg = 0

\* Entry of out.markStarted (progress) or out.printRunning (streaming, serial):
\* o.mu.Lock().  Under the parallel policy wg.Add(1) precedes it.
StartLock ==
    /\ mainpc = "run"
    /\ next <= N
    /\ pc[next] = "idle"
    /\ variant = "progress" \/ ~cfgParallel
    /\ Unlocked
    /\ mu' = mu \cup {0}
    /\ pc' = [pc EXCEPT ![next] = "starting"]
    /\ wg' = IF cfgParallel THEN wg + 1 ELSE wg
    /\ UNCHANGED <<others, discovery, inputs, mainpc, relevant, exitStatus,
                   results, next, ran, allOutput, completed, failed, running,
                   finished, status, runs, firstResults>>

\* Body and deferred Unlock of markStarted / printRunning; under the parallel
\* policy the go statement follows and the loop moves on.
StartUnlock ==
    /\ mainpc = "run"
    /\ next <= N
    /\ pc[next] = "starting"
    /\ 0 \in mu
    /\ running' = IF variant = "progress"
                  THEN Append(running, relevant[next].Label) ELSE running
    /\ status' = IF variant = "progress"
                 THEN updateProgress(status, completed, failed, running')
                 ELSE status
    /\ mu' = mu \ {0}
    /\ pc' = [pc EXCEPT ![next] = "spawned"]
    /\ next' = IF cfgParallel THEN LoopAdvance(next) ELSE next
    /\ UNCHANGED <<others, discovery, inputs, mainpc, relevant, exitStatus,
                   results, wg, ran, allOutput, completed, failed, finished,
                   runs, firstResults>>

\* Streaming version, parallel policy: wg.Add(1); go func(i, pkg) {...}(i, pkg)
Go ==
    /\ mainpc = "run"
    /\ next <= N
    /\ pc[next] = "idle"
    /\ variant = "streaming" /\ cfgParallel
    /\ wg' = wg + 1
    /\ pc' = [pc EXCEPT ![next] = "spawned"]
    /\ next' = LoopAdvance(next)
    /\ UNCHANGED <<others, discovery, inputs, mainpc, relevant, exitStatus,
                   results, mu, ran, allOutput, completed, failed, running,
                   finished, status, runs, firstResults>>

----------------------------------------------------------------------------
(* executeBuffered / executeStreaming for package i.  Under the parallel    *)
(* policy this code runs in its own goroutine, which lives until the       *)
(* process exits, whether or not RunTask has returned.                     *)

\* Faulty variant of StepFailed: the error of cmd.Run() is ignored.
StepFailedIgnored(line) == FALSE

\* err := cmd.Run(); if err != nil { return Result{...} }
StepFailed(line) == ExitCode(line) # 0

\* Faulty variant of FailureResult: FailedStep is the configured command
\* string, without the trailing arguments.
FailureResultWithoutArgs(i, line, out) ==
    [Package |-> relevant[i], Success |-> FALSE,
     FailedStep |-> Cmds(i)[Len(ran[i])], Output |-> out]

\* return Result{Package: pkg, Success: false, FailedStep: cmdStr + extra,
\*               Output: allOutput.String()}
FailureResult(i, line, out) ==
    [Package |-> relevant[i], Success |-> FALSE, FailedStep |-> line,
     Output |-> out]

\* return Result{Package: pkg, Success: true, Output: allOutput.String()}
SuccessResult(i, out) ==
    [Package |-> relevant[i], Success |-> TRUE, FailedStep |-> "",
     Output |-> out]

\* The loop over cmds is entered: the first command is spawned, or the list
\* is empty and the success Result is returned at once.
Begin(i) ==
    /\ mainpc \in {"run", "returned"}
    /\ pc[i] = "spawned"
    /\ IF Len(Cmds(i)) = 0
       THEN /\ results' = [results EXCEPT ![ResultSlot(i)] = SuccessResult(i, <<>>)]
            /\ pc' = [pc EXCEPT ![i] = "executed"]
            /\ UNCHANGED ran
       ELSE /\ ran' = [ran EXCEPT ![i] = <<CmdLine(Cmds(i)[1], extraArgs)>>]
            /\ pc' = [pc EXCEPT ![i] = "running"]
            /\ UNCHANGED results
    /\ UNCHANGED <<others, discovery, inputs, mainpc, relevant, exitStatus,
                   next, wg, mu, allOutput, completed, failed, running,
                   finished, status, runs, firstResults>>

\* cmd.Run() returns for the running step: its output is appended, then the
\* Result is returned (failure, or the list is exhausted) or the next command
\* is spawned.
Finish(i) ==
    /\ mainpc \in {"run", "returned"}
    /\ pc[i] = "running"
    /\ LET k == Len(ran[i])
           line == ran[i][k]
           out == allOutput[i] \o Capture(Writes(line))
       IN  /\ Terminates(line)
           /\ allOutput' = [allOutput EXCEPT ![i] = out]
           /\ IF StepFailed(line)
              THEN /\ results' = [results EXCEPT ![ResultSlot(i)] =
                                      FailureResult(i, line, out)]
                   /\ pc' = [pc EXCEPT ![i] = "executed"]
                   /\ UNCHANGED ran
              ELSE IF k = Len(Cmds(i))
              THEN /\ results' = [results EXCEPT ![ResultSlot(i)] =
                                      SuccessResult(i, out)]
                   /\ pc' = [pc EXCEPT ![i] = "executed"]
                   /\ UNCHANGED ran
              ELSE /\ ran' = [ran EXCEPT ![i] =
                                  Append(@, CmdLine(Cmds(i)[k + 1], extraArgs))]
                   /\ UNCHANGED <<results, pc>>
    /\ UNCHANGED <<others, discovery, inputs, mainpc, relevant, exitStatus,
                   next, wg, mu, completed, failed, running, finished, status,
                   runs, firstResults>>

----------------------------------------------------------------------------
(* Recording a completed package.                                          *)

\* Faulty variant of RemoveFirst: the label stays in the list.
RemoveFirstNone(s, l) == s

RECURSIVE RemoveFirst(_, _)
\* for i, label := range o.running { if label == l { remove; break } }
RemoveFirst(s, l) ==
    IF Len(s) = 0 THEN s
    ELSE IF Head(s) = l THEN Tail(s)
    ELSE <<Head(s)>> \o RemoveFirst(Tail(s), l)

\* Entry of out.markCompleted(results[i]) / out.printResult(results[i])
CompleteLock(i) ==
    /\ mainpc \in {"run", "returned"}
    /\ pc[i] = "executed"
    /\ Unlocked
    /\ mu' = mu \cup {i}
    /\ pc' = [pc EXCEPT ![i] = "marking"]
    /\ UNCHANGED <<others, discovery, inputs, mainpc, relevant, exitStatus,
                   results, next, wg, ran, allOutput, completed, failed,
                   running, finished, status, runs, firstResults>>

\* Body and deferred Unlock of markCompleted / printResult, followed by the
\* deferred wg.Done() of a worker, or by the next iteration of the serial loop.
CompleteUnlock(i) ==
    /\ mainpc \in {"run", "returned"}
    /\ pc[i] = "marking"
    /\ i \in mu
    /\ LET r == results[i] IN
       /\ IF variant = "progress"
          THEN /\ completed' = completed + 1
               /\ failed' = IF ~r.Success THEN failed + 1 ELSE failed
               /\ running' = RemoveFirst(running, r.Package.Label)
               /\ status' = updateProgress(status, completed', failed', running')
          ELSE UNCHANGED <<completed, failed, running, status>>
       /\ finished' = Append(finished, r.Package.Label)
    /\ mu' = mu \ {i}
    /\ pc' = [pc EXCEPT ![i] = "done"]
    /\ IF cfgParallel
       THEN wg' = wg - 1 /\ UNCHANGED next
       ELSE next' = LoopAdvance(next) /\ UNCHANGED wg
    /\ UNCHANGED <<others, discovery, inputs, mainpc, relevant, exitStatus,
                   results, ran, allOutput, runs, firstResults>>

----------------------------------------------------------------------------
(* RunTask returns; main prints the summary and exits.                     *)

\* The loop is over; wg.Wait() under the parallel policy; out.clearProgress();
\* return results.
Return ==
    /\ mainpc = "run"
    /\ next > N
    /\ cfgParallel => WaitDone
    /\ status' = IF variant = "progress" THEN clearProgress(status) ELSE status
    /\ mainpc' = "returned"
    /\ UNCHANGED <<others, discovery, inputs, relevant, exitStatus, results,
                   next, wg, mu, pc, ran, allOutput, completed, failed,
                   running, finished, runs, firstResults>>

\* Faulty variant of AnyFailed: only the first result is looked at.
AnyFailedFirstOnly(rs) == Len(rs) > 0 /\ ~rs[1].Success

\* for _, r := range results { if !r.Success { os.Exit(1) } }
AnyFailed(rs) == \E k \in 1..Len(rs) : ~rs[k].Success

MainExit ==
    /\ mainpc = "returned"
    /\ exitStatus' = IF AnyFailed(results) THEN 1 ELSE 0
    /\ mainpc' = "exited"
    /\ UNCHANGED <<others, discovery, inputs, relevant, results, next, wg, mu,
                   pc, ran, allOutput, completed, failed, running, finished,
                   status, runs, firstResults>>

Next ==
    \/ MainPrepare
    \/ StartLock
    \/ StartUnlock
    \/ Go
    \/ \E i \in DOMAIN pc : Begin(i)
    \/ \E i \in DOMAIN pc : Finish(i)
    \/ \E i \in DOMAIN pc : CompleteLock(i)
    \/ \E i \in DOMAIN pc : CompleteUnlock(i)
    \/ Return
    \/ MainExit

Spec == Init /\ [][Next]_vars

----------------------------------------------------------------------------
(* Other specifications over the same actions.                             *)

\* One package with longer command lists, including the empty command string.
InitSteps == InitWith({"progress", "streaming"}, StepCommands, 1, StepMaxCmds,
                      ExtraArgsChoices)

SpecSteps == InitSteps /\ [][Next]_vars

\* Commands that may never terminate.  The Go scheduler runs every runnable
\* goroutine and sync.Mutex does not starve a waiter, so a step that is
\* enabled is eventually taken; no action of the model can be repeated
\* without bound, hence weak fairness of Next.  Trailing arguments do not
\* change which commands terminate and are left out.
InitLive == InitWith({"progress", "streaming"}, LiveCommands, LiveMaxPkgs,
                     LiveMaxSteps, {<<>>})

SpecLive == InitLive /\ [][Next]_vars /\ WF_vars(Next)

\* A caller that runs the same task over the same packages under both
\* policies: after the first RunTask returns it keeps the results and calls
\* RunTask again with cfg.Parallel flipped.
RunAgain ==
    /\ mainpc = "returned"
    /\ runs = 1
    /\ firstResults' = results
    /\ parallel' = ~parallel
    /\ EnterRunTask(relevant)
    /\ UNCHANGED <<others, discovery, variant, extraArgs, packages, isTTY,
                   exitStatus>>

NextBoth == Next \/ RunAgain

SpecBoth == Init /\ [][NextBoth]_vars

\* Trailing argument lists of up to two arguments, over commands that succeed.
InitArgs == InitWith({"progress", "streaming"}, {"ok"}, MaxPkgs, MaxSteps,
                     ManyArgsChoices)

SpecArgs == InitArgs /\ [][Next]_vars

\* The progress display with and without a terminal, one command per task.
ProgressMaxPkgs == 3

InitProgress == InitRun({"progress", "streaming"}, Commands, ProgressMaxPkgs,
                        1, {<<>>}, BOOLEAN)

SpecProgress == InitProgress /\ [][Next]_vars

----------------------------------------------------------------------------
(* Strings of the discovery code.  A path, a label, a member pattern or a   *)
(* filter is a sequence of one-character strings, so that prefixes,        *)
(* suffixes and the byte order of Go's string comparison are computed.     *)

\* The characters in use, in the order of their byte values.
Alphabet == <<"-", ".", "/", "_", "a", "b", "c", "d", "e", "h", "i", "l", "m",
              "n", "o", "p", "r", "s", "t", "u", "v", "w", "x", "y">>

Ord(c) == CHOOSE k \in 1..Len(Alphabet) : Alphabet[k] = c

RECURSIVE Less(_, _)
\* s < t on Go strings: lexicographic over the bytes
Less(s, t) ==
    IF Len(t) = 0 THEN FALSE
    ELSE IF Len(s) = 0 THEN TRUE
    ELSE IF Head(s) = Head(t) THEN Less(Tail(s), Tail(t))
    ELSE Ord(Head(s)) < Ord(Head(t))

\* strings.HasPrefix, strings.HasSuffix, strings.TrimPrefix, strings.TrimSuffix
HasPrefix(s, p) == Len(p) <= Len(s) /\ SubSeq(s, 1, Len(p)) = p
HasSuffix(s, x) == Len(x) <= Len(s) /\ SubSeq(s, Len(s) - Len(x) + 1, Len(s)) = x
TrimPrefix(s, p) == IF HasPrefix(s, p) THEN SubSeq(s, Len(p) + 1, Len(s)) ELSE s
TrimSuffix(s, x) == IF HasSuffix(s, x) THEN SubSeq(s, 1, Len(s) - Len(x)) ELSE s

Slashes == <<"/", "/">>
Recursive == <<"/", ".", ".", ".">>
Dots == <<".", ".", ".">>

RECURSIVE Elements(_, _)
\* The elements of a slash-separated path; cur is the element being read.
Elements(s, cur) ==
    IF Len(s) = 0 THEN <<cur>>
    ELSE IF Head(s) = "/" THEN <<cur>> \o Elements(Tail(s), <<>>)
    ELSE Elements(Tail(s), Append(cur, Head(s)))

\* filepath.Join(root, p), as the directory names from the root downwards:
\* Join cleans the result, which drops empty and "." elements.
JoinRoot(p) == SelectSeq(Elements(p, <<>>), LAMBDA e : e # <<>> /\ e # <<".">>)

RECURSIVE ToSlash(_)
\* The directory names joined by "/"
ToSlash(dir) ==
    IF Len(dir) = 0 THEN <<>>
    ELSE IF Len(dir) = 1 THEN dir[1]
    ELSE dir[1] \o <<"/">> \o ToSlash(Tail(dir))

\* rel, _ := filepath.Rel(root, dir); filepath.ToSlash(rel)
Rel(dir) == IF dir = <<>> THEN <<".">> ELSE ToSlash(dir)

\* The name of the directory that holds the workspace.
RootName == <<"w", "s">>

\* filepath.Base(dir), info.Name()
Base(dir) == IF dir = <<>> THEN RootName ELSE dir[Len(dir)]

----------------------------------------------------------------------------
(* Files of a directory and the decoded TOML.                              *)

\* A TOML value of a [tasks] table: a string, an array, or anything else.
TomlString(s) == [kind |-> "string", text |-> s, items |-> <<>>]
TomlArray(xs) == [kind |-> "array", text |-> "", items |-> xs]
TomlTable == [kind |-> "table", text |-> "", items |-> <<>>]

\* An array item: a string, or a value that is not a string.
ItemString(s) == [isString |-> TRUE, text |-> s]
ItemInteger == [isString |-> FALSE, text |-> "7"]

\* ux.toml of a directory: absent, not decodable, or decoded.
NoUxToml == [kind |-> "absent", name |-> <<>>, type |-> "", tasks |-> <<>>]
Malformed == [kind |-> "malformed", name |-> <<>>, type |-> "", tasks |-> <<>>]
UxToml(n, t, ts) == [kind |-> "valid", name |-> n, type |-> t, tasks |-> ts]

markerPriority ==
    << [file |-> "pyproject.toml", typeName |-> "python"],
       [file |-> "go.mod", typeName |-> "go"],
       [file |-> "Cargo.toml", typeName |-> "rust"] >>

\* Faulty variant of skipDirs: no directory name is on the deny-list.
skipDirsEmpty == {}

skipDirs ==
    { <<"n", "o", "d", "e", "_", "m", "o", "d", "u", "l", "e", "s">>,
      <<"v", "e", "n", "d", "o", "r">>,
      <<"_", "_", "p", "y", "c", "a", "c", "h", "e", "_", "_">>,
      <<"v", "e", "n", "v">>,
      <<".", "v", "e", "n", "v">>,
      <<"d", "i", "s", "t">>,
      <<"b", "u", "i", "l", "d">> }

Exists(dir) == dir \in DOMAIN fs

HasMarker(dir, k) == markerPriority[k].file \in fs[dir].markers

isPackageDir(dir) ==
    /\ Exists(dir)
    /\ \/ fs[dir].ux.kind # "absent"
       \/ \E k \in 1..Len(markerPriority) : HasMarker(dir, k)

detectType(dir) ==
    LET hits == {k \in 1..Len(markerPriority) : HasMarker(dir, k)} IN
    IF hits = {} THEN ""
    ELSE markerPriority[CHOOSE k \in hits : \A j \in hits : k <= j].typeName

\* cmds = append(cmds, s) for every item that is a string
StringItems(xs) ==
    LET strs == SelectSeq(xs, LAMBDA x : x.isString) IN
    [k \in 1..Len(strs) |-> strs[k].text]

parseTasks(raw) ==
    [name \in {n \in DOMAIN raw : raw[n].kind \in {"string", "array"}} |->
        IF raw[name].kind = "string" THEN <<raw[name].text>>
        ELSE StringItems(raw[name].items)]

resolveDefaults(raw) == [typeName \in DOMAIN raw |-> parseTasks(raw[typeName])]

----------------------------------------------------------------------------
(* resolvePackage.                                                         *)

\* Faulty variant of MergeTasks: a default is kept when the package declares
\* the same task.
MergeTasksDefaultsWin(dt, ov) ==
    [k \in DOMAIN dt \cup DOMAIN ov |-> IF k \in DOMAIN dt THEN dt[k] ELSE ov[k]]

\* for k, v := range dt { tasks[k] = v }; for k, v := range overrideTasks { tasks[k] = v }
MergeTasks(dt, ov) ==
    [k \in DOMAIN dt \cup DOMAIN ov |-> IF k \in DOMAIN ov THEN ov[k] ELSE dt[k]]

\* taskSources[k] = "default", then taskSources[k] = "override"
MergeSources(dt, ov) ==
    [k \in DOMAIN dt \cup DOMAIN ov |->
        IF k \in DOMAIN ov THEN "override" ELSE "default"]

\* Faulty variant of NoTasks: an empty task table is not noticed.
NoTasksNever(tasks) == FALSE

\* if len(tasks) == 0 { return nil, nil }
NoTasks(tasks) == DOMAIN tasks = {}

\* The returned pointer is modelled as a sequence of at most one Package.
resolvePackage(dir, defs) ==
    LET ux == fs[dir].ux
        name == IF ux.name = <<>> THEN Base(dir) ELSE ux.name
        pkgType == IF ux.type = "" THEN detectType(dir) ELSE ux.type
        overrideTasks == parseTasks(ux.tasks)
        dt == IF pkgType # "" /\ pkgType \in DOMAIN defs
              THEN defs[pkgType] ELSE <<>>
        tasks == MergeTasks(dt, overrideTasks)
    IN  IF ux.kind = "malformed" THEN [err |-> TRUE, pkg |-> <<>>]
        ELSE IF pkgType = "" /\ DOMAIN overrideTasks = {}
        THEN [err |-> FALSE, pkg |-> <<>>]
        ELSE IF NoTasks(tasks) THEN [err |-> FALSE, pkg |-> <<>>]
        ELSE [err |-> FALSE,
              pkg |-> << [Name |-> name, Type |-> pkgType, Dir |-> dir,
                          Label |-> Slashes \o Rel(dir), Tasks |-> tasks,
                          TaskSources |-> MergeSources(dt, overrideTasks)] >>]

----------------------------------------------------------------------------
(* discoverPackages.                                                       *)

\* Faulty variant of Seen: the seen map is never consulted.
SeenNever(dir) == FALSE

\* if seen[path] { ... }
Seen(dir) == dir \in seen

\* if name != "." && strings.HasPrefix(name, ".") { return filepath.SkipDir }
Hidden(name) == name # <<".">> /\ HasPrefix(name, <<".">>)

RECURSIVE SortNames(_)
\* filepath.Walk reads the entries of a directory in the order of their names.
SortNames(S) ==
    IF S = {} THEN <<>>
    ELSE LET m == CHOOSE x \in S : \A y \in S \ {x} : Less(Base(x), Base(y))
         IN  <<m>> \o SortNames(S \ {m})

Children(dir) ==
    SortNames({d \in DOMAIN fs :
                  Len(d) = Len(dir) + 1 /\ SubSeq(d, 1, Len(dir)) = dir})

RECURSIVE Insert(_, _)
Insert(p, s) ==
    IF Len(s) = 0 THEN <<p>>
    ELSE IF Less(p.Label, Head(s).Label) THEN <<p>> \o s
    ELSE <<Head(s)>> \o Insert(p, Tail(s))

\* Faulty variant of SortByLabel: the slice is returned in the order found.
SortByLabelSkipped(ps) == ps

RECURSIVE SortByLabel(_)
\* sort.Slice(packages, func(i, j int) bool { return packages[i].Label < packages[j].Label })
SortByLabel(ps) ==
    IF Len(ps) = 0 THEN <<>> ELSE Insert(Head(ps), SortByLabel(Tail(ps)))

\* Faulty variant of ReturnOnError: the packages found so far are returned
\* with the error.
ReturnFoundOnError(ps) == ps

\* return nil, err
ReturnOnError(ps) == <<>>

\* label := strings.TrimPrefix(member, "//")
MemberLabel(m) == TrimPrefix(members[m], Slashes)

IsRecursive(m) == HasSuffix(MemberLabel(m), Recursive)

\* absBase := filepath.Join(root, strings.TrimSuffix(label, "/..."))
AbsBase(m) == JoinRoot(TrimSuffix(MemberLabel(m), Recursive))

\* Faulty variant of MarkSeen: the directory is not recorded.
MarkSeenNot(dir) == seen

\* seen[path] = true
MarkSeen(dir) == seen \cup {dir}

\* seen[dir] = true; pkg, err := resolvePackage(...); then the error is
\* returned, or the package (if any) is appended and the loop goes on at the
\* given position.
Load(dir, goOn) ==
    LET r == resolvePackage(dir, resolveDefaults(defaults)) IN
    /\ seen' = MarkSeen(dir)
    /\ resolved' = Append(resolved, dir)
    /\ IF r.err
       THEN /\ derr' = <<dir>>
            /\ discovered' = ReturnOnError(found)
            /\ dpc' = "returned"
            /\ UNCHANGED <<found, producedBy>>
       ELSE /\ found' = found \o r.pkg
            /\ producedBy' = producedBy \o [k \in 1..Len(r.pkg) |-> mi]
            /\ dpc' = goOn
            /\ UNCHANGED <<derr, discovered>>

\* A recursive member: filepath.Walk(absBase, ...) starts.  When absBase
\* cannot be read the callback gets the error, returns nil, and the walk is
\* over.
StartWalk ==
    /\ dpc = "members"
    /\ mi <= Len(members)
    /\ IsRecursive(mi)
    /\ walk' = IF Exists(AbsBase(mi)) THEN <<AbsBase(mi)>> ELSE <<>>
    /\ dpc' = "walking"
    /\ UNCHANGED <<others, runner, again, fs, defaults, members, filter, mi,
                   seen, resolved, found, producedBy, discovered, derr,
                   filtered>>

\* The walk callback for the next directory (the callback returns nil at
\* once for a file that is not a directory).
WalkVisit ==
    /\ dpc = "walking"
    /\ Len(walk) > 0
    /\ LET path == Head(walk)
           name == Base(path)
       IN  IF Hidden(name) \/ name \in skipDirs
           THEN /\ walk' = Tail(walk)
                /\ UNCHANGED <<dpc, seen, resolved, found, producedBy, discovered, derr>>
           ELSE /\ walk' = Children(path) \o Tail(walk)
                /\ IF \/ path = <<>>
                      \/ path = AbsBase(mi)
                      \/ Seen(path)
                      \/ ~isPackageDir(path)
                   THEN UNCHANGED <<dpc, seen, resolved, found, producedBy, discovered,
                                    derr>>
                   ELSE Load(path, "walking")
    /\ UNCHANGED <<others, runner, again, fs, defaults, members, filter, mi,
                   filtered>>

\* filepath.Walk returned nil: the next member.
WalkEnd ==
    /\ dpc = "walking"
    /\ Len(walk) = 0
    /\ mi' = mi + 1
    /\ dpc' = "members"
    /\ UNCHANGED <<others, runner, again, fs, defaults, members, filter, walk,
                   seen, resolved, found, producedBy, discovered, derr,
                   filtered>>

\* A member that names one directory.
ExactMember ==
    /\ dpc = "members"
    /\ mi <= Len(members)
    /\ ~IsRecursive(mi)
    /\ LET dir == JoinRoot(MemberLabel(mi)) IN
       IF Seen(dir) \/ ~isPackageDir(dir)
       THEN UNCHANGED <<dpc, seen, resolved, found, producedBy, discovered, derr>>
       ELSE Load(dir, "members")
    /\ mi' = mi + 1
    /\ UNCHANGED <<others, runner, again, fs, defaults, members, filter, walk,
                   filtered>>

\* The member loop is over: sort and return.
SortAndReturn ==
    /\ dpc = "members"
    /\ mi > Len(members)
    /\ discovered' = SortByLabel(found)
    /\ dpc' = "returned"
    /\ UNCHANGED <<others, runner, again, fs, defaults, members, filter, mi,
                   walk, seen, resolved, found, producedBy, derr, filtered>>

----------------------------------------------------------------------------
(* filterByLabel, and main between discovery and the task run.             *)

\* Faulty variant of IsEverything: "//..." is not recognised.
IsEverythingNever(label) == FALSE

\* if label == "..." { return packages }
IsEverything(label) == label = Dots

\* Faulty variant of MatchesRecursive: any label that starts with the prefix
\* is taken.
MatchesRecursiveNoBoundary(pkgPath, prefix) == HasPrefix(pkgPath, prefix)

\* strings.HasPrefix(pkgPath, prefix+"/") || pkgPath == prefix
MatchesRecursive(pkgPath, prefix) ==
    HasPrefix(pkgPath, prefix \o <<"/">>) \/ pkgPath = prefix

filterByLabel(pkgs, f) ==
    LET label == TrimPrefix(f, Slashes) IN
    IF IsEverything(label) THEN pkgs
    ELSE IF HasSuffix(label, Recursive)
    THEN SelectSeq(pkgs, LAMBDA pkg :
             MatchesRecursive(TrimPrefix(pkg.Label, Slashes),
                              TrimSuffix(label, Recursive)))
    ELSE SelectSeq(pkgs, LAMBDA pkg : TrimPrefix(pkg.Label, Slashes) = label)

\* main after DiscoverPackages: exit 1 on an error, otherwise
\* if filter != "" { packages = ux.FilterByLabel(packages, filter) }
MainFilter ==
    /\ dpc = "returned"
    /\ IF derr # <<>>
       THEN /\ dpc' = "failed"
            /\ UNCHANGED filtered
       ELSE /\ dpc' = "filtered"
            /\ filtered' = IF filter # <<>>
                           THEN filterByLabel(discovered, filter)
                           ELSE discovered
    /\ UNCHANGED <<others, runner, again, fs, defaults, members, filter, mi,
                   walk, seen, resolved, found, producedBy, discovered, derr>>

NextDiscovery ==
    \/ StartWalk
    \/ WalkVisit
    \/ WalkEnd
    \/ ExactMember
    \/ SortAndReturn
    \/ MainFilter

----------------------------------------------------------------------------
(* Workspaces.                                                             *)

MaxMembers == 2
MaxItems == 2

\* The task-run side while a specification is about discovery only.
RunnerOff ==
    /\ variant = "progress"
    /\ parallel = FALSE
    /\ extraArgs = <<>>
    /\ packages = <<>>
    /\ mainpc = "off"
    /\ relevant = <<>>
    /\ exitStatus = -1
    /\ results = <<>>
    /\ next = 1
    /\ wg = 0
    /\ mu = {}
    /\ pc = <<>>
    /\ ran = <<>>
    /\ allOutput = <<>>
    /\ completed = 0
    /\ failed = 0
    /\ running = <<>>
    /\ finished = <<>>
    /\ isTTY = FALSE
    /\ status = <<>>
    /\ runs = 0
    /\ firstResults = <<>>

\* Directory names.
A == <<"a">>
B == <<"b">>
C == <<"c">>
X == <<"x">>
AB == <<"a", "b">>
AdashB == <<"a", "-", "b">>
Vendor == <<"v", "e", "n", "d", "o", "r">>
DotH == <<".", "h">>

\* Member patterns and filters.
Pat(dir) == Slashes \o ToSlash(dir)
PatRec(dir) == Slashes \o ToSlash(dir) \o Recursive

\* Directory contents.
Files(ux, ms) == [ux |-> ux, markers |-> ms]
Plain == Files(NoUxToml, {})
GoMod == Files(NoUxToml, {"go.mod"})
Broken == Files(Malformed, {})
Own == Files(UxToml(<<>>, "", "test" :> TomlString("B")), {})

\* The workspace root holds the root ux.toml, whose [tasks.<name>] entries
\* are tables.
RootDir == Files(UxToml(<<>>, "", "test" :> TomlTable), {})

GoDefaults == "go" :> ("test" :> TomlString("A") @@ "lint" :> TomlString("L"))

Trees(dirs, contents) == {(<<>> :> RootDir) @@ f : f \in [dirs -> contents]}

SeqsUpTo(S, n) == UNION {[1..k -> S] : k \in 0..n}

\* discoverPackages is entered.
DiscoveryStart(trees, defs, memberLists, filters) ==
    /\ RunnerOff
    /\ fs \in trees
    /\ defaults \in defs
    /\ members \in memberLists
    /\ filter \in filters
    /\ dpc = "members"
    /\ mi = 1
    /\ walk = <<>>
    /\ seen = {}
    /\ found = <<>>
    /\ producedBy = <<>>
    /\ discovered = <<>>
    /\ derr = <<>>
    /\ filtered = <<>>
    /\ resolved = <<>>
    /\ dround = 1
    /\ firstDiscovered = <<>>
    /\ firstErr = FALSE

InitDiscovery(trees, defs, memberLists, filters) ==
    /\ DiscoveryStart(trees, defs, memberLists, filters)
    /\ OthersOff

\* Overlapping and repeated member patterns over directories whose walk
\* order (a, a/b, a-b) is not their label order, some with a ux.toml that
\* cannot be decoded.
DiscoverPatterns ==
    {PatRec(<<A>>), PatRec(<<<<".">>>>), Pat(<<A>>), Pat(<<A>>) \o <<"/">>,
     Pat(<<A, B>>), Pat(<<AdashB>>), PatRec(<<X>>)}

InitDiscover ==
    InitDiscovery(Trees({<<A>>, <<A, B>>, <<AdashB>>},
                        {Plain, GoMod, Broken, Own}),
                  {GoDefaults}, SeqsUpTo(DiscoverPatterns, MaxMembers), {<<>>})

SpecDiscover == InitDiscover /\ [][NextDiscovery]_vars

\* A tree with a deny-listed directory, a package below it, a hidden
\* directory and an ordinary package directory, all below a.
PrunePatterns ==
    {PatRec(<<A>>), PatRec(<<<<".">>>>), PatRec(<<A, Vendor>>),
     Pat(<<A, Vendor, C>>), PatRec(<<A, DotH>>), Pat(<<A, DotH>>)}

InitPrune ==
    InitDiscovery(Trees({<<A>>, <<A, B>>, <<A, Vendor>>, <<A, Vendor, C>>,
                         <<A, DotH>>}, {Plain, GoMod}),
                  {GoDefaults}, SeqsUpTo(PrunePatterns, MaxMembers), {<<>>})

SpecPrune == InitPrune /\ [][NextDiscovery]_vars

\* One directory a whose ux.toml, marker files and type defaults vary: what
\* a [tasks] entry can be decoded to, for arrays of up to MaxItems items.
RawValues ==
    {TomlString("B"), TomlTable} \cup
    {TomlArray(xs) : xs \in SeqsUpTo({ItemString("B"), ItemInteger}, MaxItems)}

RawTasks == UNION {[names -> RawValues] : names \in SUBSET {"test", "fmt"}}

UxTomls ==
    {NoUxToml} \cup
    {UxToml(n, t, ts) : n \in {<<>>, <<"n">>}, t \in {"", "go", "zz"},
                        ts \in RawTasks}

MarkerSets == {{}, {"go.mod"}, {"pyproject.toml", "go.mod"}}

NoDefaults == <<>>
PythonDefaults == "python" :> ("test" :> TomlArray(<<>>))

InitResolve ==
    InitDiscovery({(<<>> :> RootDir) @@ (<<A>> :> Files(ux, ms)) :
                       ux \in UxTomls, ms \in MarkerSets},
                  {NoDefaults, GoDefaults, PythonDefaults},
                  {<<Pat(<<A>>)>>, <<PatRec(<<<<".">>>>)>>}, {<<>>})

SpecResolve == InitResolve /\ [][NextDiscovery]_vars

\* Label filters over the packages a, a/b, a/b/c, ab and x, each of which
\* may or may not be there.
Everything == Slashes \o Dots

Filters ==
    {<<>>, Everything, PatRec(<<A>>), Pat(<<A>>), PatRec(<<A, B>>),
     Pat(<<A, B, C>>), Pat(<<AB>>), PatRec(<<X>>), Pat(<<C>>),
     Slashes \o Recursive}

InitFilter ==
    InitDiscovery(Trees({<<A>>, <<A, B>>, <<A, B, C>>, <<AB>>, <<X>>},
                        {Plain, GoMod}),
                  {GoDefaults},
                  {<<PatRec(<<<<".">>>>)>>,
                   <<PatRec(<<A>>), Pat(<<AB>>), Pat(<<X>>), Pat(<<A>>)>>},
                  Filters)

SpecFilter == InitFilter /\ [][NextDiscovery]_vars

----------------------------------------------------------------------------
(* Change detection: gitDiffFiles and filterAffected, which main calls     *)
(* after the label filter when --affected is given.                        *)

Whitespace == {" ", "\n", "\t", "\r"}

RECURSIVE TrimLeft(_)
TrimLeft(s) ==
    IF Len(s) > 0 /\ Head(s) \in Whitespace THEN TrimLeft(Tail(s)) ELSE s

RECURSIVE TrimRight(_)
TrimRight(s) ==
    IF Len(s) > 0 /\ s[Len(s)] \in Whitespace
    THEN TrimRight(SubSeq(s, 1, Len(s) - 1)) ELSE s

\* strings.TrimSpace
TrimSpace(s) == TrimRight(TrimLeft(s))

RECURSIVE SplitLines(_, _)
\* strings.Split(s, "\n"); cur is the line being read
SplitLines(s, cur) ==
    IF Len(s) = 0 THEN <<cur>>
    ELSE IF Head(s) = "\n" THEN <<cur>> \o SplitLines(Tail(s), <<>>)
    ELSE SplitLines(Tail(s), Append(cur, Head(s)))

\* Faulty variant of Reset: the buffer keeps what the first comparison wrote.
ResetKeeps(buf) == buf

\* out.Reset()
Reset(buf) == <<>>

\* Faulty variant of NoneAffected: without changed files every package is kept.
NoneAffectedKeepsAll(pkgs) == pkgs

\* if len(changedFiles) == 1 && changedFiles[0] == "" { return nil, nil }
NoneAffected(pkgs) == <<>>

\* prefix := filepath.ToSlash(rel) + "/"
AffectedPrefix(pkg) == Rel(pkg.Dir) \o <<"/">>

\* The part of filterAffected after gitDiffFiles has returned raw.
AffectedBy(raw, pkgs) ==
    LET changedFiles == SplitLines(TrimSpace(raw), <<>>) IN
    IF Len(changedFiles) = 1 /\ changedFiles[1] = <<>> THEN NoneAffected(pkgs)
    ELSE SelectSeq(pkgs, LAMBDA pkg :
             \E k \in 1..Len(changedFiles) :
                 HasPrefix(changedFiles[k], AffectedPrefix(pkg)))

\* git diff --name-only origin/main...HEAD runs and cmd.Run() returns.
GitDiffFirst ==
    /\ dpc = "filtered"
    /\ gpc = "start"
    /\ gitRuns' = Append(gitRuns, "origin/main...HEAD")
    /\ gitOut' = gitOut \o diff.first.out
    /\ gitErr' = ~diff.first.ok
    /\ gpc' = IF diff.first.ok THEN "diffed" ELSE "retry"
    /\ UNCHANGED <<outsideChange, diff, kept, affErr>>

\* The fallback: out.Reset(), then git diff --name-only origin/main runs.
GitDiffRetry ==
    /\ gpc = "retry"
    /\ gitRuns' = Append(gitRuns, "origin/main")
    /\ gitOut' = Reset(gitOut) \o diff.second.out
    /\ gitErr' = ~diff.second.ok
    /\ gpc' = "diffed"
    /\ UNCHANGED <<outsideChange, diff, kept, affErr>>

\* gitDiffFiles has returned out.String(), err: the rest of filterAffected.
FilterAffected ==
    /\ gpc = "diffed"
    /\ IF gitErr
       THEN kept' = <<>> /\ affErr' = TRUE
       ELSE kept' = AffectedBy(gitOut, filtered) /\ affErr' = FALSE
    /\ gpc' = "done"
    /\ UNCHANGED <<outsideChange, diff, gitOut, gitErr, gitRuns>>

NextAffected ==
    \/ NextDiscovery
    \/ GitDiffFirst
    \/ GitDiffRetry
    \/ FilterAffected

\* Changed files: one in the root, one in a, one in ab and one in a/b.
F == <<"f">>
ChangedPaths == <<F, ToSlash(<<A, F>>), ToSlash(<<AB, F>>), ToSlash(<<A, B, F>>)>>

RECURSIVE NameOnly(_)
\* git diff --name-only: one path per line
NameOnly(files) ==
    IF Len(files) = 0 THEN <<>>
    ELSE Head(files) \o <<"\n">> \o NameOnly(Tail(files))

ChangedLists ==
    {SelectSeq(ChangedPaths, LAMBDA c : c \in S) :
        S \in SUBSET {ChangedPaths[k] : k \in 1..Len(ChangedPaths)}}

\* A comparison that succeeds reports the changed files; a first comparison
\* that fails may have written something before it failed.
Outcome(ok, text) == [ok |-> ok, out |-> text]

FirstOutcomes(files) ==
    {Outcome(TRUE, NameOnly(files)), Outcome(FALSE, <<>>),
     Outcome(FALSE, NameOnly(<<ToSlash(<<AB, F>>)>>))}

SecondOutcomes(files) == {Outcome(TRUE, NameOnly(files)), Outcome(FALSE, <<>>)}

Diffs ==
    UNION {{[files |-> fl, first |-> fst, second |-> snd] :
               fst \in FirstOutcomes(fl), snd \in SecondOutcomes(fl)} :
           fl \in ChangedLists}

RootGo == Files(UxToml(<<>>, "", "test" :> TomlTable), {"go.mod"})

InitAffected ==
    /\ DiscoveryStart({(<<>> :> r) @@ f :
                           r \in {RootDir, RootGo},
                           f \in [{<<A>>, <<AB>>, <<A, B>>} -> {Plain, GoMod}]},
                      {GoDefaults},
                      {<<Pat(<<<<".">>>>), PatRec(<<<<".">>>>)>>}, {<<>>})
    /\ OffBut("change")
    /\ diff \in Diffs
    /\ gpc = "start"
    /\ gitOut = <<>>
    /\ gitErr = FALSE
    /\ gitRuns = <<>>
    /\ kept = <<>>
    /\ affErr = FALSE

SpecAffected == InitAffected /\ [][NextAffected]_vars

----------------------------------------------------------------------------
(* The summary: PrintSummary and writeFailureLog.                          *)

RECURSIVE ReplaceAll(_, _, _)
\* strings.ReplaceAll for a one-character old and new
ReplaceAll(s, old, new) ==
    IF Len(s) = 0 THEN <<>>
    ELSE <<IF Head(s) = old THEN new ELSE Head(s)>> \o ReplaceAll(Tail(s), old, new)

\* name := strings.TrimPrefix(r.Package.Label, "//");
\* name = strings.ReplaceAll(name, "/", "-")
LogName(label) == ReplaceAll(TrimPrefix(label, Slashes), "/", "-")

\* path := filepath.Join(os.TempDir(), "ux", task, name+".log")
LogPath(t, label) == <<"ux", t, LogName(label) \o <<".", "l", "o", "g">>>>

\* What writeFailureLog writes for a result.
LogContent(t, r) ==
    [task |-> t, label |-> r.Package.Label, dir |-> r.Package.Dir,
     output |-> r.Output]

RECURSIVE InsertResult(_, _)
InsertResult(r, s) ==
    IF Len(s) = 0 THEN <<r>>
    ELSE IF Less(r.Package.Label, Head(s).Package.Label) THEN <<r>> \o s
    ELSE <<Head(s)>> \o InsertResult(r, Tail(s))

RECURSIVE SortResults(_)
\* sort.Slice(sorted, func(i, j int) bool {
\*     return sorted[i].Package.Label < sorted[j].Package.Label })
SortResults(rs) ==
    IF Len(rs) = 0 THEN <<>> ELSE InsertResult(Head(rs), SortResults(Tail(rs)))

\* PrintSummary up to the table: the sorted copy and the failures in it.
PrintSummary ==
    /\ spc = "start"
    /\ failures' = SelectSeq(SortResults(summarized), LAMBDA r : ~r.Success)
    /\ fi' = 1
    /\ spc' = "failures"
    /\ UNCHANGED <<outsideSummary, summarized, logFiles, tmp>>

\* logFile := writeFailureLog(task, r) for the next failure.
WriteFailureLog ==
    /\ spc = "failures"
    /\ fi <= Len(failures)
    /\ LET r == failures[fi]
           path == LogPath(task, r.Package.Label)
       IN  /\ tmp' = (path :> LogContent(task, r)) @@ tmp
           /\ logFiles' = Append(logFiles, path)
    /\ fi' = fi + 1
    /\ UNCHANGED <<outsideSummary, summarized, spc, failures>>

\* The final count, after the last failure.
FinalCount ==
    /\ spc = "failures"
    /\ fi > Len(failures)
    /\ spc' = "done"
    /\ UNCHANGED <<outsideSummary, summarized, failures, fi, logFiles, tmp>>

NextSummary ==
    \/ PrintSummary
    \/ WriteFailureLog
    \/ FinalCount

MaxResults == 3

\* Results of the packages a, a/b, a-b and b, each passed or failed, in any
\* order the run may have produced them.
SummaryDirs == {<<A>>, <<A, B>>, <<AdashB>>, <<B>>}

ResultOf(dir, ok) ==
    [Package |-> [Label |-> Pat(dir), Dir |-> dir], Success |-> ok,
     Output |-> IF ok THEN <<>> ELSE ToSlash(dir)]

ResultLists ==
    {rs \in SeqsUpTo({ResultOf(d, ok) : d \in SummaryDirs, ok \in BOOLEAN},
                     MaxResults) :
        \A i \in 1..Len(rs) : \A j \in 1..Len(rs) :
            i # j => rs[i].Package.Label # rs[j].Package.Label}

InitSummary ==
    /\ RunnerOff
    /\ DiscoveryOff
    /\ OffBut("summary")
    /\ summarized \in ResultLists
    /\ spc = "start"
    /\ failures = <<>>
    /\ fi = 0
    /\ logFiles = <<>>
    /\ tmp = <<>>

SpecSummary == InitSummary /\ [][NextSummary]_vars

----------------------------------------------------------------------------
(* ux migrate: RunMigrate and writeFileIfNew.                              *)

Star == <<"*">>

\* Faulty variant of FileExists: os.Stat never finds the file.
FileExistsNever(dir) == FALSE

\* _, err := os.Stat(path); err == nil, for the ux.toml of a directory
FileExists(dir) == mfs[dir].ux # "none"

\* expandWorkspaceGlob: the matching directories that hold a package.json,
\* sorted.
expandWorkspaceGlob(pattern) ==
    SelectSeq(<<<<A>>, <<B>>>>, LAMBDA d :
        /\ pattern = Star \/ <<pattern>> = d
        /\ mfs[d].pkgjson # "none")

RECURSIVE CollectMembers(_)
\* Step 6 of RunMigrate: the members of every pattern that have scripts.
CollectMembers(ps) ==
    IF Len(ps) = 0 THEN <<>>
    ELSE SelectSeq(expandWorkspaceGlob(Head(ps)),
                   LAMBDA d : mfs[d].pkgjson = "scripts")
         \o CollectMembers(Tail(ps))

\* RunMigrate up to the typeDefaults: package.json, workspaces, allPkgs.
MigrateCollect ==
    /\ mpc = "start"
    /\ IF mfs[<<>>].pkgjson = "none" \/ Len(patterns) = 0
       THEN merr' = TRUE /\ mpc' = "done" /\ allPkgs' = allPkgs
       ELSE merr' = FALSE /\ mpc' = "root" /\ allPkgs' = CollectMembers(patterns)
    /\ UNCHANGED <<outsideMigration, mfs, patterns, readonly, mk, reports,
                   migrated>>

\* writeFileIfNew(path, content) for the ux.toml of dir, and what RunMigrate
\* does with its result; member tells the root from a member.
WriteIfNew(dir, member, after) ==
    IF FileExists(dir)
    THEN /\ reports' = Append(reports, [dir |-> dir, line |-> "skipped"])
         /\ mpc' = after
         /\ UNCHANGED <<mfs, migrated, merr>>
    ELSE IF dir \in readonly
    THEN /\ merr' = TRUE
         /\ mpc' = "done"
         /\ UNCHANGED <<mfs, reports, migrated>>
    ELSE /\ mfs' = [mfs EXCEPT ![dir].ux = "generated"]
         /\ reports' = Append(reports, [dir |-> dir, line |-> "written"])
         /\ migrated' = IF member THEN migrated + 1 ELSE migrated
         /\ mpc' = after
         /\ UNCHANGED merr

\* Step 8: the root ux.toml.
MigrateRoot ==
    /\ mpc = "root"
    /\ WriteIfNew(<<>>, FALSE, "members")
    /\ mk' = 1
    /\ UNCHANGED <<outsideMigration, patterns, readonly, allPkgs>>

\* Step 9: the ux.toml of the next member.
MigrateMember ==
    /\ mpc = "members"
    /\ mk <= Len(allPkgs)
    /\ WriteIfNew(allPkgs[mk], TRUE, "members")
    /\ mk' = mk + 1
    /\ UNCHANGED <<outsideMigration, patterns, readonly, allPkgs>>

\* "Migrated %d packages." and return nil.
MigrateReturn ==
    /\ mpc = "members"
    /\ mk > Len(allPkgs)
    /\ mpc' = "done"
    /\ UNCHANGED <<outsideMigration, mfs, patterns, readonly, allPkgs, mk,
                   reports, migrated, merr>>

NextMigrate ==
    \/ MigrateCollect
    \/ MigrateRoot
    \/ MigrateMember
    \/ MigrateReturn

MaxPatterns == 2

\* A turborepo with the root and the directories a and b: each may hold a
\* package.json with or without scripts, and a ux.toml written before.
Turborepos ==
    [{<<>>, <<A>>, <<B>>} ->
        [pkgjson : {"none", "noscripts", "scripts"}, ux : {"none", "old"}]]

InitMigrate ==
    /\ RunnerOff
    /\ DiscoveryOff
    /\ OffBut("migration")
    /\ mfs \in Turborepos
    /\ patterns \in SeqsUpTo({Star, A}, MaxPatterns)
    /\ readonly \in SUBSET {<<>>, <<A>>}
    /\ mpc = "start"
    /\ allPkgs = <<>>
    /\ mk = 0
    /\ reports = <<>>
    /\ migrated = 0
    /\ merr = FALSE

SpecMigrate == InitMigrate /\ [][NextMigrate]_vars

----------------------------------------------------------------------------
(* The line-prefixing writer of executeStreaming.                          *)

\* prefix: "    "
Prefix == <<" ", " ", " ", " ">>

RECURSIVE IndexByte(_, _)
\* bytes.IndexByte, counted from 1; 0 when the byte is absent
IndexByte(p, c) ==
    IF Len(p) = 0 THEN 0
    ELSE IF Head(p) = c THEN 1
    ELSE LET k == IndexByte(Tail(p), c) IN IF k = 0 THEN 0 ELSE k + 1

\* Faulty variant of LineEnded: atStart is not set after a newline.
LineEndedNever == FALSE

\* pw.atStart = true, after the bytes through a newline have been written
LineEnded == TRUE

RECURSIVE WriteLoop(_, _, _)
\* The loop of prefixWriter.Write over p: at is pw.atStart, out what the
\* underlying writer has received.
WriteLoop(p, at, out) ==
    IF Len(p) = 0 THEN [atStart |-> at, out |-> out]
    ELSE LET out1 == IF at THEN out \o Prefix ELSE out
             idx == IndexByte(p, "\n")
         IN  IF idx = 0
             THEN [atStart |-> FALSE, out |-> out1 \o p]
             ELSE WriteLoop(SubSeq(p, idx + 1, Len(p)), LineEnded,
                            out1 \o SubSeq(p, 1, idx))

MaxWrites == 3
MaxChunk == 2

\* The byte slices a command may write: up to MaxChunk bytes, some of them
\* newlines.
Chunks == SeqsUpTo({"x", "\n"}, MaxChunk)

\* pw.Write(p): total := len(p); the loop; return total, nil.
Write ==
    /\ Len(written) < MaxWrites
    /\ \E p \in Chunks :
          LET r == WriteLoop(p, atStart, downstream)
          IN  /\ written' = Append(written, p)
              /\ atStart' = r.atStart
              /\ downstream' = r.out
              /\ returned' = Append(returned, Len(p))
    /\ UNCHANGED outsideWriter

NextWriter == Write

\* pw := &prefixWriter{prefix: "    ", writer: os.Stdout, atStart: true}
InitWriter ==
    /\ RunnerOff
    /\ DiscoveryOff
    /\ OffBut("writer")
    /\ written = <<>>
    /\ atStart = TRUE
    /\ downstream = <<>>
    /\ returned = <<>>

SpecWriter == InitWriter /\ [][NextWriter]_vars

----------------------------------------------------------------------------
(* A caller that discovers the same tree twice, the second time with the   *)
(* member list written another way.                                        *)

\* The orders of a list.
Orders(s) ==
    {[k \in 1..Len(s) |-> s[f[k]]] :
        f \in {g \in [1..Len(s) -> 1..Len(s)] :
                  \A i \in 1..Len(s) : \A j \in 1..Len(s) :
                      i # j => g[i] # g[j]}}

InsertAt(s, k, x) == SubSeq(s, 1, k) \o <<x>> \o SubSeq(s, k + 1, Len(s))

\* Other ways of writing the member list ms: in another order, with one of
\* its patterns repeated, or with the exact pattern of a directory that ms
\* covers already.
Variations(ms, covered) ==
    Orders(ms) \cup
    {InsertAt(q, k, x) :
        q \in Orders(ms), k \in 0..Len(ms),
        x \in {ms[i] : i \in 1..Len(ms)} \cup {Pat(d) : d \in covered}}

\* discoverPackages has returned: the caller keeps the result and calls it
\* again on the same tree and root configuration.
DiscoverAgain ==
    /\ dpc = "returned"
    /\ dround = 1
    /\ firstDiscovered' = discovered
    /\ firstErr' = (derr # <<>>)
    /\ members' \in Variations(members, seen)
    /\ dround' = 2
    /\ dpc' = "members"
    /\ mi' = 1
    /\ walk' = <<>>
    /\ seen' = {}
    /\ found' = <<>>
    /\ producedBy' = <<>>
    /\ discovered' = <<>>
    /\ derr' = <<>>
    /\ resolved' = <<>>
    /\ UNCHANGED <<others, runner, fs, defaults, filter, filtered>>

NextAgain == NextDiscovery \/ DiscoverAgain

AgainMaxMembers == 2

AgainPatterns == {PatRec(<<A>>), PatRec(<<<<".">>>>), Pat(<<A>>), Pat(<<A, B>>)}

InitAgain ==
    InitDiscovery(Trees({<<A>>, <<A, B>>, <<AdashB>>}, {Plain, GoMod, Broken}),
                  {GoDefaults}, SeqsUpTo(AgainPatterns, AgainMaxMembers),
                  {<<>>})

SpecAgain == InitAgain /\ [][NextAgain]_vars

\* discoverPackages has returned without an error.
Discovered == dpc \in {"returned", "filtered"} /\ derr = <<>>

\* The labels of a package list.
Labels(ps) == [k \in 1..Len(ps) |-> ps[k].Label]

----------------------------------------------------------------------------
(* Vocabulary of the properties.                                           *)

\* RunTask has been called and has returned.
Returned == mainpc = "returned" \/ (mainpc = "exited" /\ runs > 0)

\* The execution of package i has returned its Result.
Post(i) == pc[i] \in {"executed", "marking", "done"}

\* The command lines of package i, in list order.
Lines(i) == [k \in 1..Len(Cmds(i)) |-> CmdLine(Cmds(i)[k], extraArgs)]

FailingSteps(i) == {k \in 1..Len(Cmds(i)) : ExitCode(Lines(i)[k]) # 0}

Min(S) == CHOOSE m \in S : \A x \in S : m <= x

\* The number of steps package i runs when nothing but its own commands
\* decides it: up to and including its first failing step.
StepsToRun(i) ==
    IF FailingSteps(i) = {} THEN Len(Cmds(i)) ELSE Min(FailingSteps(i))

RECURSIVE CapturedOf(_)
\* What the execution function in use captures of the given steps, step by step.
CapturedOf(lines) ==
    IF Len(lines) = 0 THEN <<>>
    ELSE Capture(Writes(Head(lines))) \o CapturedOf(Tail(lines))

RECURSIVE WrittenBy(_)
\* The bytes the given steps wrote to either stream, in the order written.
WrittenBy(lines) ==
    IF Len(lines) = 0 THEN <<>>
    ELSE Bytes(Writes(Head(lines))) \o WrittenBy(Tail(lines))

----------------------------------------------------------------------------
(* Properties.                                                             *)

\* C1: when RunTask has returned, the result slice has exactly one Result
\* per input package and the Result at position i belongs to the package at
\* position i, whatever the order in which the workers completed, and under
\* the serial policy as well.
C1_ResultsInInputOrder ==
    Returned =>
        /\ Len(results) = Len(relevant)
        /\ \A i \in 1..Len(relevant) : results[i].Package = relevant[i]

\* C1 witness: a parallel run has returned although the second package
\* completed before the first.
C1_Witness ==
    /\ Returned
    /\ parallel
    /\ N >= 2
    /\ finished[1] = relevant[2].Label
    /\ results[1].Package = relevant[1]

\* C2: when RunTask has returned, every package of the input list has been
\* executed, and the number of steps each package ran is decided by its own
\* command list alone (all of them, or up to its own first failing step),
\* whichever other packages failed.
C2_FailureIsolation ==
    Returned =>
        \A i \in 1..N :
            /\ pc[i] = "done"
            /\ Len(ran[i]) = StepsToRun(i)
            /\ Len(Cmds(i)) > 0 => Len(ran[i]) >= 1

\* C2 witness: a serial run has returned in which the first package failed
\* and the second package still ran its whole two-step list.
C2_Witness ==
    /\ Returned
    /\ ~parallel
    /\ N >= 2
    /\ ~results[1].Success
    /\ Len(Cmds(2)) = 2
    /\ Len(ran[2]) = 2

\* C3: within a package the steps started so far are a prefix of the command
\* list in list order, no step is started after one that exited non-zero,
\* and once the execution has returned: if the last step run exited non-zero
\* the Result is a failure whose FailedStep is that step's command line (the
\* configured command string itself for a multi-step list) and otherwise it
\* is a success after the whole list; in both cases Output is what was
\* captured of exactly the steps run.
C3_MultiStepAbort ==
    \A i \in DOMAIN pc :
        LET r == ran[i]
            n == Len(r)
        IN  /\ n <= Len(Cmds(i))
            /\ \A k \in 1..n : r[k] = Lines(i)[k]
            /\ \A k \in 1..(n - 1) : ExitCode(r[k]) = 0
            /\ Post(i) =>
                /\ results[i].Output = CapturedOf(r)
                /\ IF n > 0 /\ ExitCode(r[n]) # 0
                   THEN /\ ~results[i].Success
                        /\ results[i].FailedStep = r[n]
                        /\ Len(Cmds(i)) > 1 => results[i].FailedStep = Cmds(i)[n]
                   ELSE /\ results[i].Success
                        /\ n = Len(Cmds(i))

\* C3 witness: the list <<"ok", "bad", "ok">> has failed at its second step
\* and the third step was never started.
C3_Witness ==
    \E i \in DOMAIN pc :
        /\ Post(i)
        /\ Cmds(i) = <<"ok", "bad", "ok">>
        /\ ran[i] = <<"ok", "bad">>
        /\ results[i].FailedStep = "bad"
        /\ ~results[i].Success

C5_OutputInWrittenOrder ==
    \A i \in DOMAIN pc :
        Post(i) => results[i].Output = WrittenBy(ran[i])

\* C6: when the same command set has been run over the same package list
\* under both policies, the two Results of every package have identical
\* Success, FailedStep and Output.
C6_PoliciesAgree ==
    (runs = 2 /\ mainpc = "returned") =>
        \A i \in 1..N :
            /\ results[i].Success = firstResults[i].Success
            /\ results[i].FailedStep = firstResults[i].FailedStep
            /\ results[i].Output = firstResults[i].Output

\* C7: under the parallel policy, when RunTask has returned every worker has
\* finished: every slot of the result slice has been written by its worker,
\* every package has been recorded as completed, the WaitGroup is at zero
\* and nobody holds the output lock, so nothing is written afterwards.
C7_ReturnAfterAllWorkers ==
    (Returned /\ parallel) =>
        /\ \A i \in 1..N : pc[i] = "done" /\ results[i].Package = relevant[i]
        /\ Len(finished) = N
        /\ variant = "progress" => (completed = N /\ running = <<>>)
        /\ wg = 0
        /\ mu = {}

\* C7 witness: a parallel run over two packages has returned.
C7_Witness ==
    /\ mainpc = "returned"
    /\ parallel
    /\ N >= 2
    /\ \A i \in 1..N : pc[i] = "done"

\* A package whose execution reaches a command that never terminates.
Hung(i) ==
    \E k \in 1..Len(Cmds(i)) :
        /\ ~Terminates(Lines(i)[k])
        /\ \A j \in 1..(k - 1) : Terminates(Lines(i)[j]) /\ ExitCode(Lines(i)[j]) = 0

AllTerminate == \A i \in 1..N : ~Hung(i)

\* C8: if every spawned command terminates, a called RunTask eventually
\* returns under both policies; if some command never terminates RunTask
\* never returns, under the parallel policy every other package still
\* completes, and under the serial policy no package after the hung one is
\* ever started.
C8_Liveness ==
    /\ [](mainpc = "run" /\ AllTerminate => <>(mainpc = "returned"))
    /\ [](~AllTerminate => mainpc # "returned")
    /\ [](mainpc = "run" /\ parallel =>
            <>(\A i \in DOMAIN pc : ~Hung(i) => pc[i] = "done"))
    /\ [](mainpc = "run" /\ ~parallel =>
            \A i \in 1..N : \A j \in 1..N : (Hung(i) /\ i < j) => pc[j] = "idle")

\* C8 witness: a parallel run is blocked in wg.Wait() on one hung package
\* while every other package has completed.
C8_Witness ==
    /\ mainpc = "run"
    /\ parallel
    /\ N >= 2
    /\ next > N
    /\ \E i \in 1..N :
        /\ Hung(i)
        /\ pc[i] = "running"
        /\ \A j \in 1..N : j # i => pc[j] = "done"

\* C9: under the serial policy at most one package is in flight, and a
\* package is started only when the package before it has run all the steps
\* it runs, its Result is in the slice and it has been recorded.
C9_SerialOneAtATime ==
    (mainpc = "run" /\ ~parallel) =>
        /\ Cardinality({i \in 1..N : pc[i] \notin {"idle", "done"}}) <= 1
        /\ \A i \in 1..(N - 1) :
            pc[i + 1] # "idle" =>
                /\ pc[i] = "done"
                /\ Len(ran[i]) = StepsToRun(i)
                /\ results[i].Package = relevant[i]
                /\ Len(finished) >= i /\ finished[i] = relevant[i].Label

\* C9 witness: a serial run executes its second package after the first one
\* is done.
C9_Witness ==
    /\ mainpc = "run"
    /\ ~parallel
    /\ N >= 2
    /\ pc[1] = "done"
    /\ pc[2] = "running"

\* C10: when the process has exited after a task run, the exit status is 1
\* if and only if some Result has Success false, and 0 otherwise; when no
\* package defines the task nothing is executed and the exit status is 0.
C10_ExitStatus ==
    mainpc = "exited" =>
        /\ runs > 0 =>
            /\ exitStatus \in {0, 1}
            /\ exitStatus = 1 <=> (\E k \in 1..Len(results) : ~results[k].Success)
        /\ SelectSeq(packages, DefinesTask) = <<>> =>
            /\ exitStatus = 0
            /\ runs = 0
            /\ results = <<>>

\* C10 witness: the process has exited with status 1 after a run whose first
\* package succeeded and whose second package failed.
C10_Witness ==
    /\ mainpc = "exited"
    /\ runs > 0
    /\ N >= 2
    /\ results[1].Success
    /\ ~results[2].Success
    /\ exitStatus = 1

\* C11: when trailing arguments are supplied and some relevant package has
\* more than one step for the task, the process exits with status 1 and no
\* command of any package is ever executed; when trailing arguments are
\* supplied and no relevant package is multi-step, every executed command
\* line is the configured command string, one space, and the arguments
\* joined by single spaces.
C11_TrailingArgs ==
    Len(extraArgs) > 0 =>
        IF \E k \in 1..Len(packages) :
               DefinesTask(packages[k]) /\ Len(packages[k].Tasks[task]) > 1
        THEN /\ mainpc \in {"filter", "exited"}
             /\ runs = 0
             /\ ran = <<>>
             /\ mainpc = "exited" => exitStatus = 1
        ELSE \A i \in DOMAIN ran : \A k \in 1..Len(ran[i]) :
                ran[i][k] = Cmds(i)[k] \o " " \o Join(extraArgs)

\* C11, the appending case: two arguments were appended to the single step
\* of the second of two packages.
C11_AppendWitness ==
    /\ Len(extraArgs) = 2
    /\ Len(ran) = 2
    /\ ran[2] = <<"ok -x -y">>

\* C11 witness: the second relevant package is multi-step and the process
\* has exited with a configuration error.
C11_Witness ==
    /\ Len(extraArgs) > 0
    /\ mainpc = "exited"
    /\ exitStatus = 1
    /\ Len(relevant) = 2
    /\ Len(relevant[1].Tasks[task]) = 1
    /\ Len(relevant[2].Tasks[task]) = 2

\* C12: no two packages found by one discovery, and no two packages it
\* returns, have the same Label, and the Label of each is "//" followed by
\* the names of its directory from the workspace root downwards, joined by
\* "/" ("." for the root itself).
C12_UniqueLabels ==
    /\ \A i \in 1..Len(found) : \A j \in 1..Len(found) :
            i # j => found[i].Label # found[j].Label
    /\ \A i \in 1..Len(discovered) : \A j \in 1..Len(discovered) :
            i # j => discovered[i].Label # discovered[j].Label
    /\ \A i \in 1..Len(discovered) :
            LET p == discovered[i] IN
            /\ p.Dir \in DOMAIN fs
            /\ p.Label = <<"/", "/">> \o
                    (IF p.Dir = <<>> THEN <<".">> ELSE ToSlash(p.Dir))

\* C12 witness: the recursive pattern //a/... and, after it, the exact
\* pattern //a/b both name the package a/b, and discovery has returned it.
C12_Witness ==
    /\ Discovered
    /\ members = <<PatRec(<<A>>), Pat(<<A, B>>)>>
    /\ \E i \in 1..Len(discovered) : discovered[i].Dir = <<A, B>>

\* C13: the list discovery returns is in ascending order of Label, compared
\* byte by byte.
C13_SortedByLabel ==
    \A i \in 1..Len(discovered) : \A j \in 1..Len(discovered) :
        i < j => ~Less(discovered[j].Label, discovered[i].Label)

\* C13 witness: the walk found a, a/b and a-b in that order and discovery
\* returned them as //a, //a-b, //a/b.
C13_Witness ==
    /\ Discovered
    /\ Labels(found) = <<Pat(<<A>>), Pat(<<A, B>>), Pat(<<AdashB>>)>>
    /\ Labels(discovered) = <<Pat(<<A>>), Pat(<<AdashB>>), Pat(<<A, B>>)>>

\* The directory names the recursive walk has to prune.
DenyList ==
    { <<"n", "o", "d", "e", "_", "m", "o", "d", "u", "l", "e", "s">>,
      <<"v", "e", "n", "d", "o", "r">>,
      <<"_", "_", "p", "y", "c", "a", "c", "h", "e", "_", "_">>,
      <<"v", "e", "n", "v">>, <<".", "v", "e", "n", "v">>,
      <<"d", "i", "s", "t">>, <<"b", "u", "i", "l", "d">> }

Denied(name) == Head(name) = "." \/ name \in DenyList

\* The walk from base visits dir: dir lies strictly below base and neither
\* base nor any directory from base down to dir has a pruned name.
Walked(base, dir) ==
    /\ Len(dir) > Len(base)
    /\ SubSeq(dir, 1, Len(base)) = base
    /\ ~Denied(IF base = <<>> THEN RootName ELSE base[Len(base)])
    /\ \A k \in (Len(base) + 1)..Len(dir) : ~Denied(dir[k])

\* C17: a package added by a recursive member pattern lies strictly below
\* the pattern's base directory, and no directory from the base down to the
\* package (both included) has a name that begins with "." or is on the
\* deny-list, whatever files the pruned directories hold.
C17_PrunedDirectories ==
    \A i \in 1..Len(found) :
        LET m == producedBy[i] IN
        HasSuffix(members[m], <<"/", ".", ".", ".">>) =>
            Walked(AbsBase(m), found[i].Dir)

\* C17 witness: a/vendor, a/vendor/c and a/.h all hold a go.mod, and the
\* walk of //a/... has returned a/b alone.
C17_Witness ==
    /\ Discovered
    /\ members = <<PatRec(<<A>>)>>
    /\ fs[<<A, Vendor>>] = GoMod
    /\ fs[<<A, Vendor, C>>] = GoMod
    /\ fs[<<A, DotH>>] = GoMod
    /\ Labels(discovered) = <<Pat(<<A, B>>)>>

\* A directory whose ux.toml cannot be decoded and which some member
\* pattern makes discovery load.
EligibleMalformed(dir) ==
    /\ dir \in DOMAIN fs
    /\ fs[dir].ux.kind = "malformed"
    /\ \E m \in 1..Len(members) :
          IF HasSuffix(members[m], <<"/", ".", ".", ".">>)
          THEN Walked(AbsBase(m), dir)
          ELSE JoinRoot(MemberLabel(m)) = dir

\* C18: when discovery has returned and some eligible directory holds a
\* malformed ux.toml, it has returned an error that names such a directory
\* and no package at all; an error is never accompanied by packages.
C18_MalformedAborts ==
    dpc \in {"returned", "failed", "filtered"} =>
        /\ (\E dir \in DOMAIN fs : EligibleMalformed(dir)) =>
                /\ derr # <<>>
                /\ EligibleMalformed(derr[1])
        /\ derr # <<>> => discovered = <<>> /\ filtered = <<>>

\* C18 witness: discovery has returned an error after it had already
\* resolved a package.
C18_Witness ==
    /\ dpc = "returned"
    /\ derr # <<>>
    /\ Len(found) > 0
    /\ discovered = <<>>

\* The commands a declared [tasks] value stands for.
Declared(raw) == {k \in DOMAIN raw : raw[k].kind \in {"string", "array"}}

\* C14: the task table of a resolved package is the default table of its
\* type overlaid by the tasks its own ux.toml declares: a task the package
\* declares has the package's commands and origin "override", any other
\* task of the defaults has the default commands and origin "default", and
\* there is no other task; the type is the explicit one, else the first
\* marker in priority order.
C14_MergePrecedence ==
    \A i \in 1..Len(found) :
        LET p == found[i]
            own == fs[p.Dir].ux.tasks
            dflt == IF p.Type \in DOMAIN defaults THEN defaults[p.Type] ELSE <<>>
        IN  /\ p.Type = IF fs[p.Dir].ux.type # "" THEN fs[p.Dir].ux.type
                        ELSE detectType(p.Dir)
            /\ DOMAIN p.Tasks = Declared(own) \cup Declared(dflt)
            /\ DOMAIN p.TaskSources = DOMAIN p.Tasks
            /\ \A k \in Declared(own) :
                    /\ p.Tasks[k] = parseTasks(own)[k]
                    /\ p.TaskSources[k] = "override"
            /\ \A k \in Declared(dflt) \ Declared(own) :
                    /\ p.Tasks[k] = parseTasks(dflt)[k]
                    /\ p.TaskSources[k] = "default"

\* C14 witness: defaults {test: A, lint: L} and a package that declares
\* {test: B} have resolved to {test: B (override), lint: L (default)}.
C14_Witness ==
    /\ Discovered
    /\ defaults = GoDefaults
    /\ Len(discovered) = 1
    /\ fs[<<A>>].ux.tasks = ("test" :> TomlString("B"))
    /\ discovered[1].Tasks = ("test" :> <<"B">> @@ "lint" :> <<"L">>)
    /\ discovered[1].TaskSources = ("test" :> "override" @@ "lint" :> "default")

\* C15: every package discovery finds or returns has at least one task; a
\* directory with no explicit type, no marker file and no task of its own
\* is never a package; and no well-formed directory makes discovery fail.
C15_AtLeastOneTask ==
    /\ \A i \in 1..Len(found) :
            LET d == found[i].Dir IN
            /\ DOMAIN found[i].Tasks # {}
            /\ ~(/\ fs[d].ux.type = ""
                 /\ fs[d].markers = {}
                 /\ Declared(fs[d].ux.tasks) = {})
    /\ \A i \in 1..Len(discovered) : DOMAIN discovered[i].Tasks # {}
    /\ derr = <<>>

\* C15 witness: a has a go.mod and a ux.toml without tasks, no defaults
\* are registered for go, and discovery has loaded a and returned nothing.
C15_Witness ==
    /\ Discovered
    /\ <<A>> \in seen
    /\ fs[<<A>>] = Files(UxToml(<<>>, "", <<>>), {"go.mod"})
    /\ defaults = NoDefaults
    /\ discovered = <<>>

\* C16: in every package discovery finds or returns, every task maps to a
\* list of at least one command.
C16_NonEmptyCommandLists ==
    /\ \A i \in 1..Len(found) :
            \A k \in DOMAIN found[i].Tasks : Len(found[i].Tasks[k]) > 0
    /\ \A i \in 1..Len(discovered) :
            \A k \in DOMAIN discovered[i].Tasks : Len(discovered[i].Tasks[k]) > 0

\* The package is in the list main keeps after the filter.
Selected(pkg) == \E i \in 1..Len(filtered) : filtered[i] = pkg

\* C19: after a filter "//" p "/..." the kept packages are exactly the
\* discovered packages whose Label is "//" p or starts with "//" p "/";
\* after any other filter but "//..." they are exactly the discovered
\* packages whose Label is the filter.
C19_LabelFilter ==
    (/\ dpc = "filtered"
     /\ filter # <<>>
     /\ filter # <<"/", "/", ".", ".", ".">>) =>
        \A i \in 1..Len(discovered) :
            LET pkg == discovered[i] IN
            IF /\ Len(filter) >= 6
               /\ SubSeq(filter, 1, 2) = <<"/", "/">>
               /\ SubSeq(filter, Len(filter) - 3, Len(filter)) =
                      <<"/", ".", ".", ".">>
            THEN LET p == SubSeq(filter, 1, Len(filter) - 4) IN
                 Selected(pkg) <=>
                     \/ pkg.Label = p
                     \/ /\ Len(pkg.Label) > Len(p)
                        /\ SubSeq(pkg.Label, 1, Len(p) + 1) = p \o <<"/">>
            ELSE Selected(pkg) <=> pkg.Label = filter

\* C19 witness: //a/... has kept //a, //a/b and //a/b/c out of the five
\* packages //a, //a/b, //a/b/c, //ab and //x.
C19_Witness ==
    /\ dpc = "filtered"
    /\ filter = PatRec(<<A>>)
    /\ Len(discovered) = 5
    /\ Labels(filtered) = <<Pat(<<A>>), Pat(<<A, B>>), Pat(<<A, B, C>>)>>

RECURSIVE IsSubsequence(_, _)
\* s can be obtained from t by deleting elements.
IsSubsequence(s, t) ==
    IF Len(s) = 0 THEN TRUE
    ELSE IF Len(t) = 0 THEN FALSE
    ELSE IF Head(s) = Head(t) THEN IsSubsequence(Tail(s), Tail(t))
    ELSE IsSubsequence(s, Tail(t))

\* C20: the list kept after the label filter is a sub-sequence of the
\* discovered list, without a duplicate, and "//..." keeps the list as it is.
C20_FilterSubsequence ==
    dpc = "filtered" =>
        /\ IsSubsequence(filtered, discovered)
        /\ \A i \in 1..Len(filtered) : \A j \in 1..Len(filtered) :
                i # j => filtered[i] # filtered[j]
        /\ filter = <<"/", "/", ".", ".", ".">> => filtered = discovered

\* C20 witness: "//..." has been applied to five packages.
C20_Witness ==
    /\ dpc = "filtered"
    /\ filter = Everything
    /\ Len(discovered) = 5
    /\ filtered = discovered

----------------------------------------------------------------------------
(* Change detection                                                        *)

\* filterAffected has returned a package list and no error.
Affected == gpc = "done" /\ ~affErr

\* The changed file lies under the directory: the directory's names are the
\* leading names of the file's path, and the path goes on after them.
Under(file, dir) ==
    LET names == Elements(file, <<>>)
    IN  Len(names) > Len(dir) /\ SubSeq(names, 1, Len(dir)) = dir

ChangedUnder(dir) == \E k \in 1..Len(diff.files) : Under(diff.files[k], dir)

\* C21: filterAffected keeps exactly the packages with a changed file under
\* their directory, in input order; a file under "ab" does not select the
\* package in "a", and a changed file anywhere in the workspace selects a
\* package located at the workspace root.
C21_AffectedExactly ==
    Affected =>
        kept = SelectSeq(filtered, LAMBDA pkg : ChangedUnder(pkg.Dir))

\* C22: when the comparison succeeds and reports no changed file,
\* filterAffected returns an empty list and no error, whatever the packages.
C22_NoChangeKeepsNone ==
    (gpc = "done" /\ ~gitErr /\ TrimSpace(gitOut) = <<>>) =>
        kept = <<>> /\ ~affErr

\* C22 witness: three packages were handed over and nothing had changed.
C22_Witness ==
    /\ gpc = "done"
    /\ ~gitErr
    /\ diff.files = <<>>
    /\ Len(filtered) = 3
    /\ kept = <<>>
    /\ ~affErr

\* C23: the comparison is run at most twice, the simplified form only after
\* the first form failed; filterAffected returns an error exactly when both
\* failed; after a failed first form and a successful retry the file list is
\* the retry's output alone.
C23_RetryOnce ==
    /\ Len(gitRuns) <= 2
    /\ Len(gitRuns) >= 1 => gitRuns[1] = "origin/main...HEAD"
    /\ Len(gitRuns) = 2 => gitRuns[2] = "origin/main" /\ ~diff.first.ok
    /\ gpc \in {"diffed", "done"} =>
          /\ Len(gitRuns) = (IF diff.first.ok THEN 1 ELSE 2)
          /\ gitErr <=> (~diff.first.ok /\ ~diff.second.ok)
          /\ (~diff.first.ok /\ diff.second.ok) => gitOut = diff.second.out
    /\ gpc = "done" => (affErr <=> (~diff.first.ok /\ ~diff.second.ok))

\* C23 witness: the first form failed after writing a line, the retry
\* succeeded, and the package of a was selected from the retry's output.
C23_Witness ==
    /\ gpc = "done"
    /\ ~diff.first.ok
    /\ diff.first.out # <<>>
    /\ diff.second.ok
    /\ diff.files = <<ToSlash(<<A, F>>)>>
    /\ ~affErr
    /\ Labels(kept) = <<Pat(<<A>>)>>

\* C23 witness: both forms failed and filterAffected returned the error.
C23_BothFailWitness ==
    /\ gpc = "done"
    /\ gitRuns = <<"origin/main...HEAD", "origin/main">>
    /\ affErr
    /\ kept = <<>>

----------------------------------------------------------------------------
(* Failure logs                                                            *)

\* C24: within one run every failing package has its own log file: two
\* failing packages with distinct labels never get the same path, so after
\* PrintSummary each failure's file holds that failure's log.
C24_OwnFailureLog ==
    spc = "done" =>
        /\ Len(logFiles) = Len(failures)
        /\ \A i \in 1..Len(failures) : \A j \in 1..Len(failures) :
               failures[i].Package.Label # failures[j].Package.Label =>
                   logFiles[i] # logFiles[j]
        /\ \A i \in 1..Len(failures) :
               tmp[logFiles[i]] = LogContent(task, failures[i])

----------------------------------------------------------------------------
(* Migration                                                               *)

\* The ux.toml files RunMigrate is to write: the root's and the collected
\* members'.
MigrationTargets == {<<>>} \cup {allPkgs[k] : k \in 1..Len(allPkgs)}

Reported(dir, line) ==
    \E k \in 1..Len(reports) : reports[k] = [dir |-> dir, line |-> line]

\* What holds of the ux.toml files written before migration, which are the
\* ones whose content is "old": none is reported as written, the counter
\* counts written member files only, and after RunMigrate has returned nil
\* each one among the root and the collected members is reported as skipped.
SkippedNotCounted ==
    /\ \A d \in DOMAIN mfs : mfs[d].ux = "old" => ~Reported(d, "written")
    /\ migrated = Cardinality({k \in 1..Len(reports) :
                                  reports[k].line = "written"
                                  /\ reports[k].dir # <<>>})
    /\ migrated = Cardinality({d \in DOMAIN mfs \ {<<>>} :
                                  mfs[d].ux = "generated"})
    /\ (mpc = "done" /\ ~merr) =>
           \A d \in MigrationTargets :
               mfs[d].ux = "old" => Reported(d, "skipped")

----------------------------------------------------------------------------
(* The progress display                                                    *)

\* The packages whose markStarted / markCompleted (printRunning /
\* printResult) is between its Lock and its Unlock, and who runs it: the
\* loop of RunTask (0) or the code of the package.
Inside == {i \in DOMAIN pc : pc[i] \in {"starting", "marking"}}
Holder(i) == IF pc[i] = "starting" THEN 0 ELSE i

Progress == <<completed, failed, running>>

\* A step that prints a status line or redraws it.
Renders ==
    /\ Len(status') = Len(status) + 1
    /\ status'[Len(status')].kind # "clear"

\* C26: never are two of the loop and the workers inside markStarted /
\* markCompleted / updateProgress at once, the one inside holds the lock,
\* and every step of a run that reads or writes completed, failed or running
\* or renders the progress is the lock holder's, ending with its Unlock.
C26_OneCriticalSection ==
    /\ [](/\ Cardinality(Inside) <= 1
          /\ mu = {Holder(i) : i \in Inside})
    /\ [][(runs' = runs /\ (Progress' # Progress \/ Renders)) =>
              /\ Cardinality(mu) = 1
              /\ mu' = {}]_vars

\* C26 witness: a worker is inside markCompleted while another worker has
\* its result and the loop has a package left to start: both wait.
C26_Witness ==
    /\ variant = "progress"
    /\ parallel
    /\ mainpc = "run"
    /\ N = 3
    /\ pc = <<"marking", "executed", "idle">>
    /\ mu = {1}

\* The Results that report a failure.
FailedResults == {i \in DOMAIN results : ~results[i].Success}

\* C27: without a terminal a RunTask over at least one package prints one
\* progress status line and no more, under both policies: it is there
\* exactly from the completion of the last package on, and reports
\* completed = total with the numbers of passed and failed packages.
C27_OneStatusLine ==
    (variant = "progress" /\ ~isTTY /\ runs >= 1 /\ N >= 1) =>
        /\ Len(status) <= 1
        /\ Len(status) = 1 <=> completed = N
        /\ mainpc \in {"returned", "exited"} => Len(status) = 1
        /\ Len(status) = 1 =>
               status[1] = [kind |-> "line", completed |-> N, total |-> N,
                            passed |-> N - Cardinality(FailedResults),
                            failed |-> Cardinality(FailedResults)]

\* C27 witness: three packages under the parallel policy, the second
\* completed last; one line, 3/3 with two passed and one failed.
C27_Witness ==
    /\ variant = "progress"
    /\ ~isTTY
    /\ parallel
    /\ mainpc = "returned"
    /\ N = 3
    /\ finished[3] = relevant[2].Label
    /\ status = <<[kind |-> "line", completed |-> 3, total |-> 3,
                   passed |-> 2, failed |-> 1]>>

\* C27 witness: the serial policy, both packages failed.
C27_SerialWitness ==
    /\ variant = "progress"
    /\ ~isTTY
    /\ ~parallel
    /\ mainpc = "returned"
    /\ status = <<[kind |-> "line", completed |-> 2, total |-> 2,
                   passed |-> 0, failed |-> 2]>>

\* The packages markStarted has been run for, and those markCompleted has
\* been run for.
Started == {i \in DOMAIN pc : pc[i] \notin {"idle", "starting"}}
Completed == {i \in DOMAIN pc : pc[i] = "done"}

\* C29: in every state of a run 0 <= failed <= completed <= total, completed
\* plus the number of in-flight labels is the number of packages marked
\* started, and a label is in flight exactly while its package is started
\* and not completed; when RunTask has returned completed = total, nothing
\* is in flight and failed is the number of Results with Success = false.
C29_CountersConsistent ==
    (variant = "progress" /\ runs >= 1) =>
        /\ 0 <= failed /\ failed <= completed /\ completed <= N
        /\ completed = Cardinality(Completed)
        /\ completed + Len(running) = Cardinality(Started)
        /\ Len(running) = Cardinality(Started \ Completed)
        /\ {running[k] : k \in 1..Len(running)} =
               {relevant[i].Label : i \in Started \ Completed}
        /\ mainpc \in {"returned", "exited"} =>
               /\ completed = N
               /\ running = <<>>
               /\ failed = Cardinality(FailedResults)

\* C29 witness: three packages under the parallel policy: the first has
\* completed and failed, the second is in flight, the third is not started.
C29_Witness ==
    /\ variant = "progress"
    /\ parallel
    /\ mainpc = "run"
    /\ N = 3
    /\ completed = 1
    /\ failed = 1
    /\ running = <<relevant[2].Label>>
    /\ pc[3] = "idle"

\* C29 witness: RunTask has returned three Results, two of them failures.
C29_ReturnWitness ==
    /\ variant = "progress"
    /\ mainpc = "returned"
    /\ completed = 3
    /\ failed = 2
    /\ running = <<>>
    /\ Cardinality(FailedResults) = 2

----------------------------------------------------------------------------
(* Live output                                                             *)

RECURSIVE Flatten(_)
\* The bytes of a sequence of byte slices, in order.
Flatten(ps) == IF Len(ps) = 0 THEN <<>> ELSE Head(ps) \o Flatten(Tail(ps))

RECURSIVE Prefixed(_, _)
\* The bytes s with the prefix before the first byte of every line; start
\* tells whether s begins a line.
Prefixed(s, start) ==
    IF Len(s) = 0 THEN <<>>
    ELSE (IF start THEN Prefix ELSE <<>>) \o <<Head(s)>>
         \o Prefixed(Tail(s), Head(s) = "\n")

\* C28: however the bytes are split into Write calls, what has gone
\* downstream after each call is all the input so far with the prefix before
\* the first byte of every line (at the very start, and after each newline
\* that is followed by more data), an unterminated tail included; every
\* Write returns the length of its input.
C28_ChunkingInsensitive ==
    /\ downstream = Prefixed(Flatten(written), TRUE)
    /\ Len(returned) = Len(written)
    /\ \A k \in 1..Len(written) : returned[k] = Len(written[k])

\* C28 witness: "x", then a newline and "x" in one call, then "x": a line
\* completed across calls, a prefix inside a call, a tail without newline.
C28_Witness ==
    /\ written = <<<<"x">>, <<"\n", "x">>, <<"x">>>>
    /\ downstream = Prefix \o <<"x", "\n">> \o Prefix \o <<"x", "x">>
    /\ returned = <<1, 2, 1>>

\* C28 witness: the same bytes in another split give the same output.
C28_OtherSplitWitness ==
    /\ written = <<<<"x", "\n">>, <<"x", "x">>>>
    /\ downstream = Prefix \o <<"x", "\n">> \o Prefix \o <<"x", "x">>

----------------------------------------------------------------------------
(* Order and repetition of the member patterns                             *)

\* C30: for a fixed tree and root configuration the member list in another
\* order, with a pattern repeated, or with an exact pattern for a directory
\* a recursive pattern covers, yields the same package list with the same
\* task tables (and an error if and only if the first list did); within one
\* discovery no directory is handed to resolvePackage twice.
C30_MemberOrderIrrelevant ==
    /\ \A i \in 1..Len(resolved) : \A j \in 1..Len(resolved) :
           i # j => resolved[i] # resolved[j]
    /\ (dround = 2 /\ dpc \in {"returned", "filtered", "failed"}) =>
           /\ discovered = firstDiscovered
           /\ (derr # <<>>) = firstErr

\* C30 witness: "//a/b" before "//./..." found a/b first; the reversed list
\* with "//a/b" repeated found a first and returned the same three packages.
C30_Witness ==
    /\ dround = 2
    /\ dpc = "returned"
    /\ members = <<PatRec(<<<<".">>>>), Pat(<<A, B>>), Pat(<<A, B>>)>>
    /\ resolved = <<<<A>>, <<A, B>>, <<AdashB>>>>
    /\ Len(discovered) = 3
    /\ discovered = firstDiscovered

\* C30 witness: both discoveries stopped at a ux.toml that cannot be decoded.
C30_ErrorWitness ==
    /\ dround = 2
    /\ dpc = "returned"
    /\ derr # <<>>
    /\ firstErr
    /\ members # <<>>

====
